---------------------------- MODULE Spec2Model ----------------------------
(***************************************************************************)
(* Model of hotel-rm-app: the query tier (the /simulate and /availability  *)
(* handlers of src/main.py and of src/api/simulations.py) and the sheet    *)
(* normaliser (parse_sheet_to_structure and safe_int of src/main.py).      *)
(*                                                                         *)
(* Representation                                                          *)
(*   text        a Python str is a tuple of one-character strings          *)
(*   date text   a request date "Y-M-D" is the tuple <<Y, M, D>> of its    *)
(*               fields; text that is not of that shape is <<>>            *)
(*   date        a datetime.date is its proleptic Gregorian ordinal        *)
(*   date key    the "%Y-%m-%d" text of a date, the tuple <<Y, M, D>>      *)
(*   Optional    None is <<>>, a present value v is <<v>>                  *)
(*   dict        a dict whose order matters (a room's plans) is a sequence *)
(*               of [name, prices] entries with distinct names; other      *)
(*               dicts are functions                                       *)
(*   money       float amounts are exact rationals kept as integers in     *)
(*               units of 1/Unit, percentages are integers                 *)
(***************************************************************************)
EXTENDS Integers, Sequences, FiniteSets, TLC

VARIABLES
    calendar,   \* the hotel's <hotel_id>_data.json, None while no file is stored
    config,     \* the hotel's partner configuration, None while none is stored
    request,    \* the request body the handlers are applied to
    response,   \* what the last handler returned or raised
    endpoint,   \* the handler that produced response
    activity,   \* activity_type of the newest ActivityLog row, "" while empty
    seen,       \* observer: an earlier simulate call kept for comparison
    df,         \* the table handed to parse_sheet_to_structure
    parse,      \* the locals of parse_sheet_to_structure and its outcome
    hotels,         \* the rows of table Hotel, in the order of their id
    hotel_configs,  \* config_json of the HotelConfig row of each hotel_id
    uploaded_files, \* the rows of table UploadedFile, in the order of their id
    data_files,     \* the content of DATA_DIR/<hotel_id>_data.json
    calls,          \* the handler call each worker runs and where it stands
    sent            \* the number of hotel management and upload requests received

query_vars == <<calendar, config, request, response, endpoint, activity, seen>>
sheet_vars == <<df, parse>>
admin_vars == <<hotels, hotel_configs, uploaded_files, data_files, calls, sent>>
vars == <<calendar, config, request, response, endpoint, activity, seen, df, parse,
          hotels, hotel_configs, uploaded_files, data_files, calls, sent>>

\* no hotel management or upload call has been made
NoAdmin ==
    /\ hotels = <<>>
    /\ hotel_configs = <<>>
    /\ uploaded_files = <<>>
    /\ data_files = <<>>
    /\ calls = <<>>
    /\ sent = 0

(***************************************************************************)
(* Bounds of the model                                                     *)
(***************************************************************************)
MaxNights == 3
MaxPrice == 2
MaxPlans == 2
MaxManyPlans == 11
MaxBetween == 2     \* cap of the count of calls made after the kept one
MaxRows == 3        \* data rows of a sheet whose rows vary
MaxShapeRows == 3   \* rows of a sheet of fewer than three columns

(***************************************************************************)
(* Program constants                                                       *)
(***************************************************************************)
PlanListLimit == 10

\* one currency unit in model money: 100 * 100 * 100, so that three
\* percentages applied in cascade stay integral
Unit == 100 * 100 * 100

None == <<>>
Some(v) == <<v>>
IsNone(o) == o = <<>>
Val(o) == o[1]

(***************************************************************************)
(* Text                                                                    *)
(***************************************************************************)
UpperChars == <<"A", "B", "C", "D", "E", "F", "G", "H", "I", "J", "K", "L", "M",
               "N", "O", "P", "Q", "R", "S", "T", "U", "V", "W", "X", "Y", "Z">>
LowerChars == <<"a", "b", "c", "d", "e", "f", "g", "h", "i", "j", "k", "l", "m",
               "n", "o", "p", "q", "r", "s", "t", "u", "v", "w", "x", "y", "z">>

\* str.lower()
lower(s) ==
    LET
        ToLowerChar(c) ==
            IF \E i \in 1..Len(UpperChars) : UpperChars[i] = c
            THEN LowerChars[CHOOSE i \in 1..Len(UpperChars) : UpperChars[i] = c]
            ELSE c
    IN  [i \in 1..Len(s) |-> ToLowerChar(s[i])]

\* Python's  needle in hay  on str
StrIn(needle, hay) ==
    \E i \in 0..(Len(hay) - Len(needle)) :
        SubSeq(hay, i + 1, i + Len(needle)) = needle

\* any(code.lower() in name.lower() for code in codes)
AnyIn(codes, name) ==
    \E k \in 1..Len(codes) : StrIn(lower(codes[k]), lower(name))

(***************************************************************************)
(* Dates                                                                   *)
(***************************************************************************)
\* the years the model's dates lie in
Years == 2023..2025

IsLeap(y) == (y % 4 = 0) /\ ((y % 100 # 0) \/ (y % 400 = 0))

DaysInMonth(y, m) ==
    IF m = 2 THEN (IF IsLeap(y) THEN 29 ELSE 28)
    ELSE IF m \in {4, 6, 9, 11} THEN 30 ELSE 31

RECURSIVE DaysBeforeMonth(_, _)
DaysBeforeMonth(y, m) ==
    IF m <= 1 THEN 0 ELSE DaysBeforeMonth(y, m - 1) + DaysInMonth(y, m - 1)

DaysBeforeYear(y) ==
    (y - 1) * 365 + ((y - 1) \div 4) - ((y - 1) \div 100) + ((y - 1) \div 400)

\* date(y, m, d).toordinal()
ToOrdinal(y, m, d) == DaysBeforeYear(y) + DaysBeforeMonth(y, m) + d

\* datetime.strptime(text, '%Y-%m-%d') raises ValueError unless this holds
DateParses(text) ==
    /\ Len(text) = 3
    /\ text[1] \in Years
    /\ text[2] \in 1..12
    /\ text[3] \in 1..DaysInMonth(text[1], text[2])

\* datetime.strptime(text, '%Y-%m-%d').date()
strptime(text) == ToOrdinal(text[1], text[2], text[3])

\* date.strftime("%Y-%m-%d")
strftime(n) ==
    LET y == CHOOSE yy \in Years :
                 DaysBeforeYear(yy) < n /\ n <= DaysBeforeYear(yy + 1)
        r == n - DaysBeforeYear(y)
        m == CHOOSE mm \in 1..12 :
                 DaysBeforeMonth(y, mm) < r /\ r <= DaysBeforeMonth(y, mm + 1)
    IN  <<y, m, r - DaysBeforeMonth(y, m)>>

(***************************************************************************)
(* Stored data and responses                                               *)
(***************************************************************************)
\* dict.get(key) on a function-shaped dict
Get(d, key) == IF key \in DOMAIN d THEN Some(d[key]) ELSE None

\* room_data.get("plans", {}).get(plan_key) on the ordered plans of a room
PlanGet(plans, key) ==
    IF \E i \in 1..Len(plans) : plans[i].name = key
    THEN Some(plans[CHOOSE i \in 1..Len(plans) : plans[i].name = key].prices)
    ELSE None

\* list(room_data.get("plans", {}).keys())
PlanKeys(plans) == [i \in 1..Len(plans) |-> plans[i].name]

\* truth value of an Optional dict: None and {} are both false
Truthy(optDict) == ~IsNone(optDict) /\ DOMAIN Val(optDict) # {}

\* faulty variant of PartnerInfo: an unknown name gets a partner of the
\* configuration
PartnerInfoOrAny(cfg, partner_name) ==
    IF IsNone(partner_name) THEN None
    ELSE IF Val(partner_name) \in DOMAIN cfg.partners
         THEN Some(cfg.partners[Val(partner_name)])
    ELSE IF DOMAIN cfg.partners = {} THEN None
    ELSE Some(cfg.partners[CHOOSE n \in DOMAIN cfg.partners : TRUE])

\* hotel_config.get("partners", {}).get(partner_name, {}); the {} default is None
PartnerInfo(cfg, partner_name) ==
    IF IsNone(partner_name) THEN None ELSE Get(cfg.partners, Val(partner_name))

\* truth value of request.partner_name: None and "" are both false
NameGiven(partner_name) == ~IsNone(partner_name) /\ Val(partner_name) # <<>>

HTTPException(status, detail, plans) ==
    [status |-> status, detail |-> detail, plans |-> plans, body |-> None]

Ok(body) == [status |-> 200, detail |-> "", plans |-> <<>>, body |-> Some(body)]

NoResponse == [status |-> 0, detail |-> "", plans |-> <<>>, body |-> None]

\* faulty variant of FirstPlans: the list is not cut
FirstPlansUncut(keys) == keys

\* available_plans[:10]
FirstPlans(keys) == SubSeq(keys, 1, IF Len(keys) < PlanListLimit THEN Len(keys) ELSE PlanListLimit)

(***************************************************************************)
(* Plan resolution                                                         *)
(***************************************************************************)
\* The loop over room_data["plans"].items() that stops at the first plan
\* whose name contains a partner code; <<>> when no plan matches.
FirstByCode(plans, codes) ==
    IF \E i \in 1..Len(plans) : AnyIn(codes, plans[i].name)
    THEN Some(CHOOSE i \in 1..Len(plans) :
                 /\ AnyIn(codes, plans[i].name)
                 /\ \A j \in 1..(i - 1) : ~AnyIn(codes, plans[j].name))
    ELSE None

\* plan_key and plan_data after the direct lookup and the partner fallback
ResolvePlan(room_data, plan, partner_info, partner_name) ==
    LET direct == PlanGet(room_data.plans, plan)
        hit == IF ~Truthy(direct) /\ ~IsNone(partner_info) /\ NameGiven(partner_name)
               THEN FirstByCode(room_data.plans, Val(partner_info).codes)
               ELSE None
    IN  IF IsNone(hit)
        THEN [plan_key |-> plan, plan_data |-> direct]
        ELSE [plan_key |-> room_data.plans[Val(hit)].name,
              plan_data |-> Some(room_data.plans[Val(hit)].prices)]

(***************************************************************************)
(* Rates                                                                   *)
(***************************************************************************)
\* partner_info.get("commission", 0) if apply_commission else 0, in percent
CommissionPct(partner_info, apply_commission) ==
    IF apply_commission /\ ~IsNone(partner_info) THEN Val(partner_info).commission ELSE 0

\* the plan is excluded from the partner discount
Excluded(partner_info, apply_partner_discount, name) ==
    /\ apply_partner_discount
    /\ ~IsNone(partner_info)
    /\ Val(partner_info).excludePlansContaining # <<>>
    /\ AnyIn(Val(partner_info).excludePlansContaining, name)

\* partner_discount_rate in percent, after the exclusion check against name
PartnerDiscountPct(partner_info, apply_partner_discount, name) ==
    IF Excluded(partner_info, apply_partner_discount, name) THEN 0
    ELSE IF apply_partner_discount /\ ~IsNone(partner_info)
         THEN Val(partner_info).percentage ELSE 0

\* the local apply_partner_discount after the exclusion check
ApplyFlag(partner_info, apply_partner_discount, name) ==
    apply_partner_discount /\ ~Excluded(partner_info, apply_partner_discount, name)

(***************************************************************************)
(* Per-night computation and totals                                        *)
(***************************************************************************)
\* The settings computed before the loop: the local apply_partner_discount
\* flag and the three rates, in percent.
Rates(apply_partner_discount, partner_discount_pct, promo_discount_pct, commission_pct) ==
    [apply_partner_discount |-> apply_partner_discount,
     partner_discount_pct |-> partner_discount_pct,
     promo_discount_pct |-> promo_discount_pct,
     commission_pct |-> commission_pct]

\* faulty variant of NightRecord: a missing price is computed on as 0
NightRecordNullAsZero(room_data, plan_data, current_date, rates) ==
    LET date_key == strftime(current_date)
        got == Get(plan_data, date_key)
        gross_price == IF IsNone(got) THEN None ELSE Val(got)
        st == Get(room_data.stock, date_key)
        stock == IF IsNone(st) THEN 0 ELSE Val(st)
        base == IF IsNone(gross_price) THEN 0 ELSE Val(gross_price)
        price_after_partner_discount ==
            IF rates.apply_partner_discount /\ rates.partner_discount_pct > 0
            THEN Some((base * (100 - rates.partner_discount_pct)) \div 100)
            ELSE Some(base)
        price_after_promo ==
            IF rates.promo_discount_pct > 0
            THEN Some((Val(price_after_partner_discount)
                       * (100 - rates.promo_discount_pct)) \div 100)
            ELSE price_after_partner_discount
        commission == (Val(price_after_promo) * rates.commission_pct) \div 100
    IN  [date |-> date_key,
         stock |-> stock,
         gross_price |-> gross_price,
         price_after_partner_discount |-> price_after_partner_discount,
         price_after_promo |-> price_after_promo,
         commission |-> commission,
         net_price |-> Some(Val(price_after_promo) - commission),
         availability |-> IF stock > 0 THEN "Disponible" ELSE "Complet"]

\* faulty variant of NightRecord: the commission is taken on the price before the
\* promo discount
NightRecordCommissionBeforePromo(room_data, plan_data, current_date, rates) ==
    LET date_key == strftime(current_date)
        got == Get(plan_data, date_key)
        gross_price == IF IsNone(got) THEN None ELSE Val(got)
        st == Get(room_data.stock, date_key)
        stock == IF IsNone(st) THEN 0 ELSE Val(st)
        price_after_partner_discount ==
            IF ~IsNone(gross_price) /\ rates.apply_partner_discount
               /\ rates.partner_discount_pct > 0
            THEN Some((Val(gross_price) * (100 - rates.partner_discount_pct)) \div 100)
            ELSE gross_price
        price_after_promo ==
            IF ~IsNone(gross_price) /\ rates.promo_discount_pct > 0
            THEN Some((Val(price_after_partner_discount)
                       * (100 - rates.promo_discount_pct)) \div 100)
            ELSE price_after_partner_discount
        commission ==
            IF ~IsNone(price_after_promo)
            THEN (Val(price_after_partner_discount) * rates.commission_pct) \div 100
            ELSE 0
        net_price ==
            IF ~IsNone(price_after_promo)
            THEN Some(Val(price_after_promo) - commission) ELSE None
    IN  [date |-> date_key,
         stock |-> stock,
         gross_price |-> gross_price,
         price_after_partner_discount |-> price_after_partner_discount,
         price_after_promo |-> price_after_promo,
         commission |-> commission,
         net_price |-> net_price,
         availability |-> IF stock > 0 THEN "Disponible" ELSE "Complet"]

\* faulty variant of NightRecord: the partner discount is added to the price
NightRecordDiscountAdds(room_data, plan_data, current_date, rates) ==
    LET date_key == strftime(current_date)
        got == Get(plan_data, date_key)
        gross_price == IF IsNone(got) THEN None ELSE Val(got)
        st == Get(room_data.stock, date_key)
        stock == IF IsNone(st) THEN 0 ELSE Val(st)
        price_after_partner_discount ==
            IF ~IsNone(gross_price) /\ rates.apply_partner_discount
               /\ rates.partner_discount_pct > 0
            THEN Some((Val(gross_price) * (100 + rates.partner_discount_pct)) \div 100)
            ELSE gross_price
        price_after_promo ==
            IF ~IsNone(gross_price) /\ rates.promo_discount_pct > 0
            THEN Some((Val(price_after_partner_discount)
                       * (100 - rates.promo_discount_pct)) \div 100)
            ELSE price_after_partner_discount
        commission ==
            IF ~IsNone(price_after_promo)
            THEN (Val(price_after_promo) * rates.commission_pct) \div 100 ELSE 0
        net_price ==
            IF ~IsNone(price_after_promo)
            THEN Some(Val(price_after_promo) - commission) ELSE None
    IN  [date |-> date_key,
         stock |-> stock,
         gross_price |-> gross_price,
         price_after_partner_discount |-> price_after_partner_discount,
         price_after_promo |-> price_after_promo,
         commission |-> commission,
         net_price |-> net_price,
         availability |-> IF stock > 0 THEN "Disponible" ELSE "Complet"]

\* One iteration of the  while current_date < dend  loop.
NightRecord(room_data, plan_data, current_date, rates) ==
    LET date_key == strftime(current_date)
        got == Get(plan_data, date_key)
        gross_price == IF IsNone(got) THEN None ELSE Val(got)
        st == Get(room_data.stock, date_key)
        stock == IF IsNone(st) THEN 0 ELSE Val(st)
        price_after_partner_discount ==
            IF ~IsNone(gross_price) /\ rates.apply_partner_discount
               /\ rates.partner_discount_pct > 0
            THEN Some((Val(gross_price) * (100 - rates.partner_discount_pct)) \div 100)
            ELSE gross_price
        price_after_promo ==
            IF ~IsNone(gross_price) /\ rates.promo_discount_pct > 0
            THEN Some((Val(price_after_partner_discount)
                       * (100 - rates.promo_discount_pct)) \div 100)
            ELSE price_after_partner_discount
        commission ==
            IF ~IsNone(price_after_promo)
            THEN (Val(price_after_promo) * rates.commission_pct) \div 100 ELSE 0
        net_price ==
            IF ~IsNone(price_after_promo)
            THEN Some(Val(price_after_promo) - commission) ELSE None
    IN  [date |-> date_key,
         stock |-> stock,
         gross_price |-> gross_price,
         price_after_partner_discount |-> price_after_partner_discount,
         price_after_promo |-> price_after_promo,
         commission |-> commission,
         net_price |-> net_price,
         availability |-> IF stock > 0 THEN "Disponible" ELSE "Complet"]

\* faulty variant of WalkDates: the loop also runs for current_date = dend
RECURSIVE WalkDatesInclusive(_, _, _, _, _)
WalkDatesInclusive(room_data, plan_data, current_date, dend, rates) ==
    IF current_date <= dend
    THEN <<NightRecord(room_data, plan_data, current_date, rates)>>
         \o WalkDatesInclusive(room_data, plan_data, current_date + 1, dend, rates)
    ELSE <<>>

\* results after the loop has run from dstart up to, not including, dend
RECURSIVE WalkDates(_, _, _, _, _)
WalkDates(room_data, plan_data, current_date, dend, rates) ==
    IF current_date < dend
    THEN <<NightRecord(room_data, plan_data, current_date, rates)>>
         \o WalkDates(room_data, plan_data, current_date + 1, dend, rates)
    ELSE <<>>

\* Python's  x or 0  on an Optional number
Or0(o) == IF IsNone(o) THEN 0 ELSE Val(o)

IsValidResult(r) == ~IsNone(r.gross_price)

\* faulty variant of SumGross: the discounted prices are summed
RECURSIVE SumGrossAfterPartner(_)
SumGrossAfterPartner(rs) ==
    IF rs = <<>> THEN 0
    ELSE Or0(Head(rs).price_after_partner_discount) + SumGrossAfterPartner(Tail(rs))

RECURSIVE SumGross(_)
SumGross(rs) ==
    IF rs = <<>> THEN 0 ELSE Or0(Head(rs).gross_price) + SumGross(Tail(rs))

RECURSIVE SumPartnerDiscount(_)
SumPartnerDiscount(rs) ==
    IF rs = <<>> THEN 0
    ELSE (Or0(Head(rs).gross_price) - Or0(Head(rs).price_after_partner_discount))
         + SumPartnerDiscount(Tail(rs))

RECURSIVE SumPromoDiscount(_)
SumPromoDiscount(rs) ==
    IF rs = <<>> THEN 0
    ELSE (Or0(Head(rs).price_after_partner_discount) - Or0(Head(rs).price_after_promo))
         + SumPromoDiscount(Tail(rs))

RECURSIVE SumCommission(_)
SumCommission(rs) ==
    IF rs = <<>> THEN 0 ELSE Head(rs).commission + SumCommission(Tail(rs))

\* faulty variant of Summary: the promo total is taken from the gross price
SummaryPromoFromGross(results) ==
    LET valid_results == SelectSeq(results, IsValidResult)
        subtotal_brut == SumGross(valid_results)
        total_partner_discount == SumPartnerDiscount(valid_results)
        total_promo_discount ==
            SumPartnerDiscount(valid_results) + SumPromoDiscount(valid_results)
        total_discount == total_partner_discount + total_promo_discount
        total_commission == SumCommission(valid_results)
    IN  [subtotal_brut |-> subtotal_brut,
         total_partner_discount |-> total_partner_discount,
         total_promo_discount |-> total_promo_discount,
         total_discount |-> total_discount,
         total_commission |-> total_commission,
         total_net |-> subtotal_brut - total_discount - total_commission]

\* the summary block of the response
Summary(results) ==
    LET valid_results == SelectSeq(results, IsValidResult)
        subtotal_brut == SumGross(valid_results)
        total_partner_discount == SumPartnerDiscount(valid_results)
        total_promo_discount == SumPromoDiscount(valid_results)
        total_discount == total_partner_discount + total_promo_discount
        total_commission == SumCommission(valid_results)
    IN  [subtotal_brut |-> subtotal_brut,
         total_partner_discount |-> total_partner_discount,
         total_promo_discount |-> total_promo_discount,
         total_discount |-> total_discount,
         total_commission |-> total_commission,
         total_net |-> subtotal_brut - total_discount - total_commission]

\* the success response of /simulate
SimulationResponse(plan_reported, room_data, plan_data, dstart, dend, rates) ==
    LET results == WalkDates(room_data, plan_data, dstart, dend, rates)
    IN  Ok([plan |-> plan_reported,
            partner_commission |-> rates.commission_pct,
            partner_discount |-> rates.partner_discount_pct,
            apply_partner_discount |-> rates.apply_partner_discount,
            nights |-> Len(results),
            results |-> results,
            summary |-> Summary(results)])

(***************************************************************************)
(* Handlers                                                                *)
(***************************************************************************)
\* faulty variant of RangeInvalid: equal dates pass the check
RangeInvalidStrict(dstart, dend) == dstart > dend

\* if dstart >= dend: raise HTTPException(status_code=400, ...)
RangeInvalid(dstart, dend) == dstart >= dend

\* faulty variant of RoomData: an unknown room falls back to the first room
RoomDataOrFirst(cal, room) ==
    IF room \in DOMAIN Val(cal).rooms
    THEN Some(Val(cal).rooms[room])
    ELSE Some(Val(cal).rooms[Val(cal).room_order[1]])

\* hotel_data.get(request.room)
RoomData(cal, room) == Get(Val(cal).rooms, room)

\* POST /simulate of src/main.py
simulate(cal, cfg, req) ==
    IF ~DateParses(req.start) \/ ~DateParses(req.end)
    THEN HTTPException(500, "Erreur lors de la simulation", <<>>)
    ELSE
    LET dstart == strptime(req.start)
        dend == strptime(req.end)
    IN
    IF RangeInvalid(dstart, dend)
    THEN HTTPException(400, "La date de debut doit etre avant la date de fin", <<>>)
    ELSE IF IsNone(cal)
    THEN HTTPException(404, "Donnees de planning introuvables", <<>>)
    ELSE IF IsNone(cfg)
    THEN HTTPException(404, "Configuration introuvable", <<>>)
    ELSE
    LET room_opt == RoomData(cal, req.room) IN
    IF IsNone(room_opt)
    THEN HTTPException(404, "Chambre introuvable", <<>>)
    ELSE
    LET room_data == Val(room_opt)
        partner_info == PartnerInfo(Val(cfg), req.partner_name)
        found == ResolvePlan(room_data, req.plan, partner_info, req.partner_name)
    IN
    IF ~Truthy(found.plan_data)
    THEN HTTPException(404, "Plan tarifaire introuvable",
                       FirstPlans(PlanKeys(room_data.plans)))
    ELSE SimulationResponse(
             found.plan_key, room_data, Val(found.plan_data), dstart, dend,
             Rates(ApplyFlag(partner_info, req.apply_partner_discount, found.plan_key),
                   PartnerDiscountPct(partner_info, req.apply_partner_discount,
                                      found.plan_key),
                   req.promo_discount,
                   CommissionPct(partner_info, req.apply_commission)))

\* POST /simulate of src/api/simulations.py
api_simulate(cal, cfg, req) ==
    IF ~req.permitted
    THEN HTTPException(403, "Droits insuffisants", <<>>)
    ELSE IF ~DateParses(req.start) \/ ~DateParses(req.end)
    THEN HTTPException(400, "Format de date invalide", <<>>)
    ELSE
    LET dstart == strptime(req.start)
        dend == strptime(req.end)
    IN
    IF RangeInvalid(dstart, dend)
    THEN HTTPException(400, "La date de debut doit etre avant la date de fin", <<>>)
    ELSE IF IsNone(cal)
    THEN HTTPException(404, "Donnees de planning introuvables", <<>>)
    ELSE IF IsNone(cfg)
    THEN HTTPException(404, "Configuration introuvable", <<>>)
    ELSE
    LET room_opt == RoomData(cal, req.room) IN
    IF IsNone(room_opt)
    THEN HTTPException(404, "Chambre introuvable", <<>>)
    ELSE
    LET room_data == Val(room_opt)
        partner_info == PartnerInfo(Val(cfg), req.partner_name)
        found == ResolvePlan(room_data, req.plan, partner_info, req.partner_name)
    IN
    IF ~Truthy(found.plan_data)
    THEN HTTPException(404, "Plan tarifaire introuvable",
                       FirstPlans(PlanKeys(room_data.plans)))
    ELSE SimulationResponse(
             req.plan, room_data, Val(found.plan_data), dstart, dend,
             Rates(ApplyFlag(partner_info, req.apply_partner_discount, req.plan),
                   PartnerDiscountPct(partner_info, req.apply_partner_discount, req.plan),
                   req.promo_discount,
                   CommissionPct(partner_info, req.apply_commission)))

\* dates_in_period
RECURSIVE DatesInPeriod(_, _)
DatesInPeriod(current_date, end_date) ==
    IF current_date < end_date
    THEN <<strftime(current_date)>> \o DatesInPeriod(current_date + 1, end_date)
    ELSE <<>>

\* the availability block shared by both /availability handlers
AvailabilityResponse(cal, req) ==
    LET hotel_data == Val(cal).rooms
        room_types == IF req.room_types # <<>> THEN req.room_types
                      ELSE Val(cal).room_order
        dates_in_period == DatesInPeriod(strptime(req.start), strptime(req.end))
        listed == {room_types[i] : i \in 1..Len(room_types)} \cap DOMAIN hotel_data
        StockOn(room_name, date_str) ==
            LET st == Get(hotel_data[room_name].stock, date_str)
            IN  IF IsNone(st) THEN 0 ELSE Val(st)
    IN  Ok([dates |-> dates_in_period,
            availability |->
                [room_name \in listed |->
                    [date_str \in {dates_in_period[i] : i \in 1..Len(dates_in_period)}
                        |-> StockOn(room_name, date_str)]]])

\* POST /availability of src/main.py
get_availability(cal, req) ==
    IF ~DateParses(req.start) \/ ~DateParses(req.end)
    THEN HTTPException(500, "Erreur lors du calcul des disponibilites", <<>>)
    ELSE IF RangeInvalid(strptime(req.start), strptime(req.end))
    THEN HTTPException(400, "La date de debut doit etre avant la date de fin", <<>>)
    ELSE IF IsNone(cal)
    THEN HTTPException(404, "Donnees de planning introuvables", <<>>)
    ELSE AvailabilityResponse(cal, req)

\* POST /availability of src/api/simulations.py
api_get_availability(cal, req) ==
    IF ~req.permitted
    THEN HTTPException(403, "Droits insuffisants", <<>>)
    ELSE IF ~DateParses(req.start) \/ ~DateParses(req.end)
    THEN HTTPException(500, "Erreur lors du calcul des disponibilites", <<>>)
    ELSE IF RangeInvalid(strptime(req.start), strptime(req.end))
    THEN HTTPException(400, "La date de debut doit etre avant la date de fin", <<>>)
    ELSE IF IsNone(cal)
    THEN HTTPException(404, "Donnees de planning introuvables", <<>>)
    ELSE AvailabilityResponse(cal, req)

(***************************************************************************)
(* Inputs                                                                  *)
(***************************************************************************)
BAR == <<"B", "A", "R">>
FBar == <<"F", "B", "a", "r">>
bar == <<"b", "a", "r">>
ZZ == <<"Z", "Z">>
OTA == <<"O", "T", "A">>

WindowKey(i) ==
    LET
        Day0 == ToOrdinal(2024, 2, 28)
    IN  strftime(Day0 + i)
WindowKeys == {WindowKey(i) : i \in 0..MaxNights}

EmptyDict == [k \in {} |-> None]

FullStock == [k \in WindowKeys |-> 2]

Partner(commission, codes, percentage, exclude) ==
    [commission |-> commission, codes |-> codes,
     percentage |-> percentage, excludePlansContaining |-> exclude]

Config(partner) == Some([partners |-> [n \in {OTA} |-> partner]])

Room(stock, plans) == [stock |-> stock, plans |-> plans]

\* a request body: the fields of SimulateIn and AvailabilityRequest, and
\* whether the caller passes check_hotel_permission
Request(room, plan, partner_name, start, end, flags, promo_discount, room_types) ==
    [room |-> room, plan |-> plan, partner_name |-> partner_name,
     start |-> start, end |-> end,
     apply_commission |-> flags[1],
     apply_partner_discount |-> flags[2],
     permitted |-> flags[3],
     promo_discount |-> promo_discount, room_types |-> room_types]

InitPlans ==
    LET
        PlanLayouts ==
            LET
                PlanEntries ==
                    LET
                        \* --- plan layouts of one room: which plans exist, in which order, and
                        \* --- whether a plan holds any date at all
                        PlanPrice(name) == IF name = BAR THEN 1 ELSE IF name = FBar THEN 2 ELSE 3
                        RAB == <<"R", "A", "B">>
                    IN  UNION {{[name |-> n, prices |-> EmptyDict],
                                [name |-> n, prices |-> [k \in WindowKeys |-> Some(PlanPrice(n) * Unit)]]}
                               : n \in {BAR, FBar, RAB}}
            IN  {ps \in UNION {[1..k -> PlanEntries] : k \in 0..MaxPlans} :
                    \A i, j \in 1..Len(ps) : i # j => ps[i].name # ps[j].name}
        CodeLists == {<<>>, <<bar>>, <<<<"F">>, bar>>, <<bar, <<"F">>>>, <<<<"r", "a">>>>}
        ExcludeLists == {<<>>, <<<<"f">>>>, <<BAR>>}
        GHOST == <<"G", "H">>
    IN  /\ \E ps \in PlanLayouts :
              calendar = Some([rooms |-> [r \in {"R1"} |-> Room(FullStock, ps)],
                               room_order |-> <<"R1">>])
        /\ \E cs \in CodeLists, ex \in ExcludeLists :
              config = Config(Partner(10, cs, 10, ex))
        /\ \E plan \in {BAR, bar, FBar},
              partner_name \in {None, Some(<<>>), Some(OTA), Some(GHOST)},
              apply_partner_discount \in BOOLEAN :
              request = Request("R1", plan, partner_name, WindowKey(0), WindowKey(2),
                                <<TRUE, apply_partner_discount, TRUE>>, 0, <<>>)

WalkCalendar ==
    LET
        PatternStock ==
            [k \in {WindowKey(i) : i \in {j \in 0..MaxNights : j % 3 # 2}} |->
                IF \E i \in 0..MaxNights : i % 3 = 0 /\ WindowKey(i) = k
                THEN 2 ELSE 0]
        \* --- date walking: every pair of date texts against a calendar with
        \* --- priced, null and missing nights
        PatternPrices ==
            [k \in {WindowKey(i) : i \in {j \in 0..MaxNights : j % 3 # 2}} |->
                IF \E i \in 0..MaxNights : i % 3 = 0 /\ WindowKey(i) = k
                THEN Some(Unit) ELSE None]
    IN  Some([rooms |-> [r \in {"R1", "R2"} |->
                            IF r = "R1"
                            THEN Room(PatternStock, <<[name |-> BAR, prices |-> PatternPrices]>>)
                            ELSE Room(FullStock, <<>>)],
              room_order |-> <<"R1", "R2">>])

InitWalk ==
    LET
        DateTexts ==
            LET
                BadDateTexts == {<<2024, 2, 30>>, <<2023, 2, 29>>, <<>>}
            IN  WindowKeys \cup BadDateTexts
    IN  /\ calendar \in {None, WalkCalendar}
        /\ config \in {None, Config(Partner(10, <<bar>>, 10, <<>>))}
        /\ \E room \in {"R1", "R9"}, plan \in {BAR, ZZ},
              partner_name \in {None, Some(OTA)},
              start \in DateTexts, end \in DateTexts,
              room_types \in {<<>>, <<"R1">>, <<"R9", "R2">>},
              permitted \in BOOLEAN :
              request = Request(room, plan, partner_name, start, end,
                                <<TRUE, TRUE, permitted>>, 5, room_types)

InitRates ==
    LET
        Pcts == {0 - 10, 0, 5, 100}
        \* --- rates: every combination of prices, percentages and flags
        PriceValues == {None} \cup {Some(p * Unit) : p \in 0..MaxPrice}
    IN  /\ \E p1 \in PriceValues, p2 \in PriceValues :
              calendar =
                Some([rooms |-> [r \in {"R1"} |->
                        Room(FullStock,
                             <<[name |-> BAR,
                                prices |-> [k \in {WindowKey(0), WindowKey(1)} |->
                                              IF k = WindowKey(0) THEN p1 ELSE p2]]>>)],
                      room_order |-> <<"R1">>])
        /\ \E c \in Pcts, d \in Pcts, ex \in {<<>>, <<<<"a">>>>} :
              config = Config(Partner(c, <<>>, d, ex))
        /\ \E apply_commission \in BOOLEAN, apply_partner_discount \in BOOLEAN,
              promo_discount \in Pcts :
              request = Request("R1", BAR, Some(OTA), WindowKey(0), WindowKey(2),
                                <<apply_commission, apply_partner_discount, TRUE>>,
                                promo_discount, <<>>)

InitMany ==
    LET
        ManyName(i) ==
            LET
                \* --- rooms with many plans, none of which the request resolves to
                Digits == <<"0", "1", "2", "3">>
            IN  <<"P", Digits[(i \div 4) + 1], Digits[(i % 4) + 1]>>
    IN  /\ \E n \in 0..MaxManyPlans :
              calendar =
                Some([rooms |-> [r \in {"R1"} |->
                        Room(FullStock,
                             [i \in 1..n |->
                                [name |-> ManyName(i),
                                 prices |-> [k \in WindowKeys |-> Some(Unit)]]])],
                      room_order |-> <<"R1">>])
        /\ config = Config(Partner(10, <<<<"z">>>>, 10, <<>>))
        /\ \E partner_name \in {None, Some(OTA)} :
              request = Request("R1", ZZ, partner_name, WindowKey(0), WindowKey(1),
                                <<TRUE, TRUE, TRUE>>, 0, <<>>)

(***************************************************************************)
(* Sheet normaliser: texts, cells and the two coercions                    *)
(*                                                                         *)
(*   cell        what df.iloc[i].tolist() yields for one cell: NaN, a str, *)
(*               a float (kept in tenths), an infinite float, a Timestamp  *)
(*               (kept as its date's ordinal)                              *)
(*   float       a parsed float is an integer in units of 1/Unit           *)
(*   date key    the parser's date strings are kept as <<Y, M, D>>, the    *)
(*               numbers written in their three fields                     *)
(***************************************************************************)

\* str.upper()
upper(s) ==
    LET
        ToUpperChar(c) ==
            IF \E i \in 1..Len(LowerChars) : LowerChars[i] = c
            THEN UpperChars[CHOOSE i \in 1..Len(LowerChars) : LowerChars[i] = c]
            ELSE c
    IN  [i \in 1..Len(s) |-> ToUpperChar(s[i])]

\* str.strip()
strip(s) ==
    LET kept == {i \in 1..Len(s) : s[i] # " "}
    IN  IF kept = {} THEN <<>>
        ELSE SubSeq(s, CHOOSE i \in kept : \A k \in kept : i <= k,
                       CHOOSE i \in kept : \A k \in kept : i >= k)

\* str.replace(a, b) for single characters
replace(s, a, b) == [i \in 1..Len(s) |-> IF s[i] = a THEN b ELSE s[i]]

DigitChars == <<"0", "1", "2", "3", "4", "5", "6", "7", "8", "9">>

\* the class \d
IsDigit(c) == \E i \in 1..10 : DigitChars[i] = c

DigitVal(c) == (CHOOSE i \in 1..10 : DigitChars[i] = c) - 1

\* the number a text of digits writes; 0 for the empty text
RECURSIVE IntOf(_)
IntOf(s) ==
    IF s = <<>> THEN 0
    ELSE IntOf(SubSeq(s, 1, Len(s) - 1)) * 10 + DigitVal(s[Len(s)])

\* the decimal digits of a natural number
RECURSIVE DigitsOf(_)
DigitsOf(n) ==
    IF n < 10 THEN <<DigitChars[n + 1]>>
    ELSE DigitsOf(n \div 10) \o <<DigitChars[(n % 10) + 1]>>

RECURSIVE Pow10(_)
Pow10(n) == IF n = 0 THEN 1 ELSE 10 * Pow10(n - 1)

\* str.split(sep)
RECURSIVE split(_, _)
split(s, sep) ==
    IF \A i \in 1..Len(s) : s[i] # sep THEN <<s>>
    ELSE LET i == CHOOSE k \in 1..Len(s) :
                      s[k] = sep /\ \A m \in 1..(k - 1) : s[m] # sep
         IN  <<SubSeq(s, 1, i - 1)>> \o split(SubSeq(s, i + 1, Len(s)), sep)

\* --- cells
NaN == [t |-> "nan", s |-> <<>>, n |-> 0]
Str(s) == [t |-> "str", s |-> s, n |-> 0]
Num(tenths) == [t |-> "num", s |-> <<>>, n |-> tenths]
Inf == [t |-> "inf", s |-> <<>>, n |-> 0]
Timestamp(ordinal) == [t |-> "ts", s |-> <<>>, n |-> ordinal]

\* pd.isna(cell)
isna(cell) == cell.t = "nan"

\* repr of a float given in tenths: sign, integer digits, ".", one decimal
NumText(tenths) ==
    LET a == IF tenths < 0 THEN 0 - tenths ELSE tenths
    IN  (IF tenths < 0 THEN <<"-">> ELSE <<>>)
        \o DigitsOf(a \div 10) \o <<".">> \o DigitsOf(a % 10)

\* str(cell) for NaN, str and float cells (a Timestamp stands in the
\* header row only, where str() is not applied to it)
StrOf(cell) ==
    IF cell.t = "str" THEN cell.s
    ELSE IF cell.t = "nan" THEN <<"n", "a", "n">>
    ELSE IF cell.t = "inf" THEN <<"i", "n", "f">>
    ELSE NumText(cell.n)

\* float(text): a value in units of 1/Unit, an infinity, or ValueError.
\* Texts are an optional sign, then "inf", or digits with at most one "."
\* and at most six decimals; every other text is a ValueError.
FloatOf(text) ==
    LET signed == text # <<>> /\ text[1] \in {"-", "+"}
        body == IF signed THEN SubSeq(text, 2, Len(text)) ELSE text
        parts == split(body, ".")
        whole == parts[1]
        frac == IF Len(parts) > 1 THEN parts[2] ELSE <<>>
        wellFormed ==
            /\ Len(parts) <= 2
            /\ \A i \in 1..Len(whole) : IsDigit(whole[i])
            /\ \A i \in 1..Len(frac) : IsDigit(frac[i])
            /\ Len(whole) + Len(frac) >= 1
            /\ Len(frac) <= 6
        magnitude == IntOf(whole) * Unit + IntOf(frac) * Pow10(6 - Len(frac))
    IN  IF lower(body) = <<"i", "n", "f">> THEN [kind |-> "inf", value |-> 0]
        ELSE IF wellFormed
             THEN [kind |-> "value",
                   value |-> IF signed /\ text[1] = "-" THEN 0 - magnitude
                             ELSE magnitude]
        ELSE [kind |-> "ValueError", value |-> 0]

Returns(v) == [raised |-> "", value |-> v]
Raises(exc) == [raised |-> exc, value |-> 0]

\* int(float(text)) inside safe_int's try: ValueError is caught and gives
\* 0, the OverflowError of int(inf) is not in the except tuple
IntOfFloat(text) ==
    LET f == FloatOf(text)
    IN  IF f.kind = "ValueError" THEN Returns(0)
        ELSE IF f.kind = "inf" THEN Raises("OverflowError")
        ELSE IF f.value >= 0 THEN Returns(f.value \div Unit)
        ELSE Returns(0 - ((0 - f.value) \div Unit))

safe_int(val) ==
    LET
        SENTINELS == {<<"X">>, <<"N", "/", "A">>, <<"-">>, <<>>}
    IN  IF isna(val) THEN Returns(0)
        ELSE IF val.t = "str"
             THEN LET v == upper(strip(val.s))
                      digits == SelectSeq(v, IsDigit)
                  IN  IF v \in SENTINELS THEN Returns(0)
                      ELSE IF digits = <<>> THEN Returns(0)
                      ELSE IntOfFloat(digits)
        ELSE IntOfFloat(replace(StrOf(val), ",", "."))

\* the price conversion of a price row's cell: None for NaN and for a text
\* float() rejects
PriceOf(price_value) ==
    LET
        \* the class [\d.]
        IsDigitOrDot(c) == IsDigit(c) \/ c = "."
    IN  IF isna(price_value) THEN None
        ELSE LET price_str == replace(StrOf(price_value), ",", ".")
                 price_clean == SelectSeq(price_str, IsDigitOrDot)
                 f == FloatOf(price_clean)
             IN  IF f.kind = "value" THEN Some(f.value) ELSE None

(***************************************************************************)
(* Sheet normaliser: parse_sheet_to_structure                              *)
(***************************************************************************)
\* the years a header date can fall in
SheetYears == 1899..2100

InSheetYears(n) ==
    DaysBeforeYear(1899) < n /\ n <= DaysBeforeYear(2101)

\* strftime('%Y-%m-%d') of a datetime within SheetYears
strftimeSheet(n) ==
    LET y == CHOOSE yy \in SheetYears :
                 DaysBeforeYear(yy) < n /\ n <= DaysBeforeYear(yy + 1)
        r == n - DaysBeforeYear(y)
        m == CHOOSE mm \in 1..12 :
                 DaysBeforeMonth(y, mm) < r /\ r <= DaysBeforeMonth(y, mm + 1)
    IN  <<y, m, r - DaysBeforeMonth(y, m)>>

\* date_str.startswith('20'), on the year field of a date key
StartsWith20(key) ==
    LET d == DigitsOf(key[1])
    IN  Len(d) >= 2 /\ d[1] = "2" /\ d[2] = "0"

\* the '/' branch: three parts, or ValueError; the parts are texts of
\* digits. zfill(2) leaves the number a part writes unchanged.
SlashDate(text) ==
    LET parts == split(text, "/")
    IN  IF Len(parts) # 3 THEN None
        ELSE Some(<<IntOf(<<"2", "0">> \o parts[3]), IntOf(parts[2]), IntOf(parts[1])>>)

\* faulty variant of SerialDate: the days are counted from 1900-01-01
SerialDateEpoch1900(cell) ==
    LET n == ToOrdinal(1900, 1, 1) + (cell.n \div 10)
    IN  IF cell.t = "inf" \/ ~InSheetYears(n) THEN None
        ELSE Some(strftimeSheet(n))

\* the serial branch: datetime(1899, 12, 30) + timedelta(days=col_value);
\* a date outside SheetYears writes no text that starts with '20' (or
\* overflows datetime), an infinite number raises OverflowError
SerialDate(cell) ==
    LET n == ToOrdinal(1899, 12, 30) + (cell.n \div 10)
    IN  IF cell.t = "inf" \/ ~InSheetYears(n) THEN None
        ELSE Some(strftimeSheet(n))

\* the last branch, pd.to_datetime(str(col_value), dayfirst=True): a text
\* YYYY-MM-DD of a real date is read as that date; the other texts of the
\* inputs are not dates and raise
TextDate(text) ==
    LET parts == split(text, "-")
        fields == <<IntOf(parts[1]), IntOf(parts[2]), IntOf(parts[3])>>
    IN  IF /\ Len(parts) = 3
           /\ Len(parts[1]) = 4 /\ Len(parts[2]) = 2 /\ Len(parts[3]) = 2
           /\ \A k \in 1..3 : \A i \in 1..Len(parts[k]) : IsDigit(parts[k][i])
           /\ fields[1] \in SheetYears
           /\ fields[2] \in 1..12
           /\ fields[3] \in 1..DaysInMonth(fields[1], fields[2])
        THEN Some(fields) ELSE None

\* the body of the header loop for one cell that is not NaN: the date
\* string appended to date_cols, None when the cell is passed over
DetectDate(col_value) ==
    LET date_str ==
            IF col_value.t = "str" /\ StrIn(<<"/">>, col_value.s)
            THEN SlashDate(col_value.s)
            ELSE IF col_value.t = "ts"
                 THEN IF InSheetYears(col_value.n)
                      THEN Some(strftimeSheet(col_value.n)) ELSE None
            ELSE IF col_value.t \in {"num", "inf"} THEN SerialDate(col_value)
            ELSE TextDate(StrOf(col_value))
    IN  IF ~IsNone(date_str) /\ StartsWith20(Val(date_str)) THEN date_str ELSE None

\* date_cols from column j on; index is Python's column number
RECURSIVE DateColsFrom(_, _)
DateColsFrom(header_row, j) ==
    IF j >= Len(header_row) THEN <<>>
    ELSE LET col_value == header_row[j + 1]
             found == IF isna(col_value) \/ j < 3 THEN None ELSE DetectDate(col_value)
         IN  (IF IsNone(found) THEN <<>>
              ELSE <<[index |-> j, date |-> Val(found)]>>)
             \o DateColsFrom(header_row, j + 1)

DateCols(header_row) == DateColsFrom(header_row, 0)

\* the dates of date_cols, in column order
DatesOf(date_cols) == [k \in 1..Len(date_cols) |-> date_cols[k].date]

\* the cell of a row that the loop over date_cols stores last for a date
LastCell(date_cols, row, date) ==
    LET k == CHOOSE kk \in 1..Len(date_cols) :
                 /\ date_cols[kk].date = date
                 /\ \A m \in (kk + 1)..Len(date_cols) : date_cols[m].date # date
    IN  row[date_cols[k].index + 1]

LEFT_FOR_SALE == <<"l", "e", "f", "t", " ", "f", "o", "r", " ", "s", "a", "l", "e">>
PRICE == <<"p", "r", "i", "c", "e">>
UNNAMED_PLAN == <<"U", "N", "N", "A", "M", "E", "D", "_", "P", "L", "A", "N">>

\* hotel_data after  if current_room not in hotel_data: ... = {stock, plans}
WithRoom(hotel_data, room) ==
    IF room \in DOMAIN hotel_data.rooms THEN hotel_data
    ELSE [rooms |-> [r \in DOMAIN hotel_data.rooms \cup {room} |->
                        IF r = room THEN Room(EmptyDict, <<>>)
                        ELSE hotel_data.rooms[r]],
          room_order |-> Append(hotel_data.room_order, room)]

\* faulty variant of StockRow: a missing cell leaves its date out
StockRowSkipsMissing(date_cols, row) ==
    IF \E k \in 1..Len(date_cols) : safe_int(row[date_cols[k].index + 1]).raised # ""
    THEN Raises("OverflowError")
    ELSE Returns([d \in {date_cols[k].date :
                             k \in {kk \in 1..Len(date_cols) :
                                       ~isna(row[date_cols[kk].index + 1])}} |->
                     safe_int(LastCell(date_cols, row, d)).value])

\* the stock branch's current_stock_data, or the exception safe_int raises
StockRow(date_cols, row) ==
    IF \E k \in 1..Len(date_cols) : safe_int(row[date_cols[k].index + 1]).raised # ""
    THEN Raises("OverflowError")
    ELSE Returns([d \in {date_cols[k].date : k \in 1..Len(date_cols)} |->
                     safe_int(LastCell(date_cols, row, d)).value])

\* the price branch's map of one plan, written over the plan's old map
PriceRow(old, date_cols, row) ==
    LET dates == {date_cols[k].date : k \in 1..Len(date_cols)}
    IN  [d \in DOMAIN old \cup dates |->
            IF d \in dates THEN PriceOf(LastCell(date_cols, row, d)) ELSE old[d]]

\* plans after the price branch has written plan_name
PutPlan(plans, plan_name, date_cols, row) ==
    IF \E k \in 1..Len(plans) : plans[k].name = plan_name
    THEN [k \in 1..Len(plans) |->
             IF plans[k].name = plan_name
             THEN [name |-> plan_name, prices |-> PriceRow(plans[k].prices, date_cols, row)]
             ELSE plans[k]]
    ELSE Append(plans, [name |-> plan_name, prices |-> PriceRow(EmptyDict, date_cols, row)])

\* the parser's locals: pc is idle, rows (in the row loop, about to read
\* Python row i), returned or raised; branch is what the loop did with the
\* row before i
Idle ==
    LET
        \* hotel_data: the rooms, and the order their keys were inserted in
        NoRooms == [rooms |-> EmptyDict, room_order |-> <<>>]
    IN  [pc |-> "idle", i |-> 0, source_info |-> <<>>, date_cols |-> <<>>,
         current_room |-> None, current_stock_data |-> EmptyDict,
         hotel_data |-> NoRooms, branch |-> "", error |-> "", result |-> None]

\* an empty DataFrame; also the value of df while nothing is parsed
EmptyTable == <<>>

\* faulty variant of Calendar: the first date column is left out
CalendarDropsFirstDate(source_info, hotel_data, date_cols) ==
    [keys |-> {"report_generated_at", "rooms", "dates_processed"},
     report_generated_at |-> source_info,
     rooms |-> hotel_data.rooms,
     room_order |-> hotel_data.room_order,
     dates_processed |-> IF date_cols = <<>> THEN <<>> ELSE Tail(DatesOf(date_cols))]

\* the returned dict; keys is what the dict holds ({} holds nothing)
Calendar(source_info, hotel_data, date_cols) ==
    [keys |-> {"report_generated_at", "rooms", "dates_processed"},
     report_generated_at |-> source_info,
     rooms |-> hotel_data.rooms,
     room_order |-> hotel_data.room_order,
     dates_processed |-> DatesOf(date_cols)]

EmptyResult ==
    [keys |-> {}, report_generated_at |-> <<>>, rooms |-> EmptyDict,
     room_order |-> <<>>, dates_processed |-> <<>>]

\* from the entry of parse_sheet_to_structure to the row loop
Begin(table) ==
    LET
        SOURCE_INCONNUE == <<"S", "o", "u", "r", "c", "e", " ", "i", "n", "c", "o", "n", "n", "u", "e">>
    IN  IF Len(table) < 1
        THEN [Idle EXCEPT !.pc = "returned", !.result = Some(EmptyResult)]
        ELSE [Idle EXCEPT !.pc = "rows", !.i = 1,
                          !.source_info = IF Len(table[1]) > 0 THEN StrOf(table[1][1])
                                          ELSE SOURCE_INCONNUE,
                          !.date_cols = DateCols(table[1])]

\* faulty variant of ScanRow: a row without a room name has no room
ScanRowNotSticky(st, row) ==
    LET blank == \A k \in 1..(IF Len(row) < 3 THEN Len(row) ELSE 3) : isna(row[k])
        named == ~isna(row[1]) /\ strip(StrOf(row[1])) # <<>>
        room == IF named THEN Some(strip(StrOf(row[1]))) ELSE None
        hotel_data == WithRoom(st.hotel_data, Val(room))
        descriptor == IF ~isna(row[3]) THEN lower(strip(StrOf(row[3]))) ELSE <<>>
        stock == StockRow(st.date_cols, row)
        plan_name == IF ~isna(row[2]) THEN strip(StrOf(row[2])) ELSE UNNAMED_PLAN
        next == [st EXCEPT !.i = @ + 1, !.current_room = room]
    IN  IF blank THEN [st EXCEPT !.i = @ + 1, !.branch = "blank"]
        ELSE IF IsNone(room) THEN [next EXCEPT !.branch = "no room"]
        ELSE IF Len(row) < 3
             THEN [next EXCEPT !.pc = "raised", !.error = "IndexError",
                               !.hotel_data = hotel_data]
        ELSE IF StrIn(LEFT_FOR_SALE, descriptor)
             THEN IF stock.raised # ""
                  THEN [next EXCEPT !.pc = "raised", !.error = stock.raised,
                                    !.hotel_data = hotel_data]
                  ELSE [next EXCEPT !.branch = "stock",
                                    !.current_stock_data = stock.value,
                                    !.hotel_data =
                                        [hotel_data EXCEPT
                                            !.rooms[Val(room)].stock = stock.value]]
        ELSE IF StrIn(PRICE, descriptor) /\ DOMAIN st.current_stock_data # {}
             THEN [next EXCEPT !.branch = "price",
                               !.hotel_data =
                                   [hotel_data EXCEPT !.rooms[Val(room)].plans =
                                       PutPlan(@, plan_name, st.date_cols, row)]]
        ELSE [next EXCEPT !.branch = "other", !.hotel_data = hotel_data]

\* one pass of the row loop over row, the locals being st
ScanRow(st, row) ==
    LET blank == \A k \in 1..(IF Len(row) < 3 THEN Len(row) ELSE 3) : isna(row[k])
        named == ~isna(row[1]) /\ strip(StrOf(row[1])) # <<>>
        room == IF named THEN Some(strip(StrOf(row[1]))) ELSE st.current_room
        hotel_data == WithRoom(st.hotel_data, Val(room))
        descriptor == IF ~isna(row[3]) THEN lower(strip(StrOf(row[3]))) ELSE <<>>
        stock == StockRow(st.date_cols, row)
        plan_name == IF ~isna(row[2]) THEN strip(StrOf(row[2])) ELSE UNNAMED_PLAN
        next == [st EXCEPT !.i = @ + 1, !.current_room = room]
    IN  IF blank THEN [st EXCEPT !.i = @ + 1, !.branch = "blank"]
        ELSE IF IsNone(room) THEN [next EXCEPT !.branch = "no room"]
        ELSE IF Len(row) < 3
             THEN [next EXCEPT !.pc = "raised", !.error = "IndexError",
                               !.hotel_data = hotel_data]
        ELSE IF StrIn(LEFT_FOR_SALE, descriptor)
             THEN IF stock.raised # ""
                  THEN [next EXCEPT !.pc = "raised", !.error = stock.raised,
                                    !.hotel_data = hotel_data]
                  ELSE [next EXCEPT !.branch = "stock",
                                    !.current_stock_data = stock.value,
                                    !.hotel_data =
                                        [hotel_data EXCEPT
                                            !.rooms[Val(room)].stock = stock.value]]
        ELSE IF StrIn(PRICE, descriptor) /\ DOMAIN st.current_stock_data # {}
             THEN [next EXCEPT !.branch = "price",
                               !.hotel_data =
                                   [hotel_data EXCEPT !.rooms[Val(room)].plans =
                                       PutPlan(@, plan_name, st.date_cols, row)]]
        ELSE [next EXCEPT !.branch = "other", !.hotel_data = hotel_data]

(***************************************************************************)
(* Specification                                                           *)
(***************************************************************************)
\* --- the observer: off, armed, or keeping one simulate call with the
\* --- number of different calls made since
NotKeeping == [mode |-> "off", call |-> None, between |-> 0]

Kept(kind, resp) ==
    [mode |-> "kept",
     call |-> Some([endpoint |-> kind, request |-> request, calendar |-> calendar,
                    config |-> config, response |-> resp]),
     between |-> 0]

\* what the observer may hold after the handler kind has answered resp
Noted(kind, resp) ==
    IF seen.mode = "off" THEN {seen}
    ELSE IF seen.mode = "armed"
         THEN IF kind \in {"main.simulate", "api.simulate"}
              THEN {seen, Kept(kind, resp)} ELSE {seen}
    ELSE IF kind = Val(seen.call).endpoint /\ request = Val(seen.call).request
         THEN {seen}
    ELSE {[seen EXCEPT !.between = IF @ < MaxBetween THEN @ + 1 ELSE @]}

Init ==
    /\ InitPlans \/ InitWalk \/ InitRates \/ InitMany
    /\ response = NoResponse
    /\ endpoint = "none"
    /\ activity = ""
    /\ seen = NotKeeping
    /\ df = EmptyTable
    /\ parse = Idle
    /\ NoAdmin

\* the row log_activity adds, if the handler reaches one of its calls
Logged(resp, completed, failed) ==
    IF resp.status = 200 THEN completed
    ELSE IF resp.status = 500 THEN failed
    ELSE activity

\* faulty variant of SimulateMain: the exclusion check writes its result
\* into the request's apply_partner_discount
SimulateMainReassignsFlag ==
    /\ response' = simulate(calendar, config, request)
    /\ endpoint' = "main.simulate"
    /\ activity' = Logged(response', "simulation.completed", "simulation.failed")
    /\ seen' \in Noted("main.simulate", response')
    /\ request' = [request EXCEPT !.apply_partner_discount =
                       IF response'.status = 200
                       THEN Val(response'.body).apply_partner_discount ELSE @]
    /\ UNCHANGED <<calendar, config>>
    /\ UNCHANGED sheet_vars
    /\ UNCHANGED admin_vars

SimulateMain ==
    /\ response' = simulate(calendar, config, request)
    /\ endpoint' = "main.simulate"
    /\ activity' = Logged(response', "simulation.completed", "simulation.failed")
    /\ seen' \in Noted("main.simulate", response')
    /\ UNCHANGED <<calendar, config, request>>
    /\ UNCHANGED sheet_vars
    /\ UNCHANGED admin_vars

SimulateApi ==
    /\ response' = api_simulate(calendar, config, request)
    /\ endpoint' = "api.simulate"
    /\ seen' \in Noted("api.simulate", response')
    /\ UNCHANGED <<calendar, config, request, activity>>
    /\ UNCHANGED sheet_vars
    /\ UNCHANGED admin_vars

AvailabilityMain ==
    /\ response' = get_availability(calendar, request)
    /\ endpoint' = "main.get_availability"
    /\ activity' = Logged(response', "availability.requested", "availability.failed")
    /\ seen' \in Noted("main.get_availability", response')
    /\ UNCHANGED <<calendar, config, request>>
    /\ UNCHANGED sheet_vars
    /\ UNCHANGED admin_vars

AvailabilityApi ==
    /\ response' = api_get_availability(calendar, request)
    /\ endpoint' = "api.get_availability"
    /\ seen' \in Noted("api.get_availability", response')
    /\ UNCHANGED <<calendar, config, request, activity>>
    /\ UNCHANGED sheet_vars
    /\ UNCHANGED admin_vars

Next == SimulateMain \/ SimulateApi \/ AvailabilityMain \/ AvailabilityApi

Spec == Init /\ [][Next]_vars

(***************************************************************************)
(* Sheets handed to the parser                                             *)
(***************************************************************************)
RoomA == <<"A">>
RoomB == <<"B">>

Head3 == <<Str(<<"R", "e", "p", "o", "r", "t">>), NaN, NaN>>
Date1 == Str(<<"0", "1", "/", "0", "3", "/", "2", "4">>)
Date2 == Str(<<"0", "2", "/", "0", "3", "/", "2", "4">>)
StockLabel == Str(<<"L", "e", "f", "t", " ", "f", "o", "r", " ", "s", "a", "l", "e">>)
PriceLabel == Str(<<"P", "r", "i", "c", "e">>)

\* --- rows: every order of stock, price and other rows of two rooms under
\* --- zero, one or two date columns
RowOf(room_cell, kind, width) ==
    <<room_cell,
      IF kind = "price" THEN Str(BAR) ELSE NaN,
      IF kind = "stock" THEN StockLabel ELSE IF kind = "price" THEN PriceLabel ELSE NaN>>
    \o [k \in 1..width |->
           IF kind = "stock" THEN Str(<<DigitChars[k + 2]>>)
           ELSE IF kind = "price" THEN Str(<<"1", DigitChars[k + 1]>>)
           ELSE NaN]

\* the request the handlers hold while a sheet is parsed
NoRequest ==
    Request("R1", BAR, None, WindowKey(0), WindowKey(1), <<TRUE, TRUE, TRUE>>, 0, <<>>)

InitParse ==
    LET
        \* --- cells: every kind of cell in a stock row and in a price row
        StockCells ==
            {NaN, Inf, Num(0), Num(30), Num(25), Num(0 - 30), Num(0 - 25)}
            \cup {Str(t) : t \in {<<"X">>, <<"x">>, <<"N", "/", "A">>, <<"n", "/", "a">>,
                                  <<"-">>, <<>>, <<" ", "x", " ">>, <<"1", "2">>,
                                  <<"-", "3">>, <<"+", "2">>, <<"1", ".", "5">>,
                                  <<"a", "b", "c">>}}
        PriceCells ==
            {NaN, Inf, Num(1200), Num(0 - 25)}
            \cup {Str(t) : t \in {<<"1", "2", "0">>, <<"1", ",", "5">>, <<"9", ".", "9", "0">>,
                                  <<"1", ".", "2", ".", "3">>, <<"a", "b", "c">>,
                                  <<"-", "5">>, <<"E", " ", "8", "0">>, <<>>, <<".">>}}
        \* --- headers: every kind of header cell over a stock row and a price row
        HeaderCells ==
            {NaN, Inf, Num(450000), Num(450005), Num(100), Num(0 - 10), Num(1000000),
             Timestamp(ToOrdinal(2024, 3, 15)), Timestamp(ToOrdinal(1999, 12, 31))}
            \cup {Str(t) : t \in {<<"1", "5", "/", "0", "3", "/", "2", "4">>, <<"1", "5", "/", "0", "3", "/", "2", "0", "2", "4">>, <<"3", "1", "/", "0", "2", "/", "2", "4">>, <<"5", "/", "3", "/", "2", "4">>,
                                  <<"1", "5", "/", "0", "3">>, <<"1", "/", "2", "/", "3", "/", "4">>, <<"2", "0", "2", "4", "-", "0", "3", "-", "1", "5">>, <<"D", "a", "t", "e">>,
                                  <<>>}}
        \* --- names: blank, padded and plain texts in the room and plan columns
        NameCells == {NaN, Str(<<" ">>), Str(<<" ", "A", " ">>), Str(RoomB)}
        PlanCells == {NaN, Str(<<>>), Str(<<" ">>), Str(<<" ">> \o BAR \o <<" ">>), Str(BAR)}
        TablesRows ==
            LET
                \* all sequences of at most n elements of S
                SeqsUpTo(S, n) == UNION {[1..k -> S] : k \in 0..n}
                RowKinds(width) ==
                    {RowOf(room_cell, kind, width) :
                        room_cell \in {NaN, Str(RoomA), Str(RoomB)}, kind \in {"stock", "price", "none"}}
            IN  UNION {{<<Head3 \o dates>> \o rows : rows \in SeqsUpTo(RowKinds(Len(dates)), MaxRows)} :
                          dates \in {<<>>, <<Date1>>, <<Date1, Date2>>}}
        TablesCells ==
            {<<Head3 \o <<Date1, Date2>>, <<Str(RoomA), NaN, StockLabel, c1, c2>>>> :
                c1 \in StockCells, c2 \in StockCells}
            \cup {<<Head3 \o <<Date1>>, <<Str(RoomA), NaN, StockLabel, c1>>,
                    <<NaN, Str(BAR), PriceLabel, c2>>>> :
                c1 \in StockCells, c2 \in PriceCells}
        \* --- shapes: sheets of fewer than three columns
        TablesShapes ==
            UNION {[1..rows -> [1..cols -> {NaN, Str(RoomA), StockLabel}]] :
                      rows \in 0..MaxShapeRows, cols \in 0..2}
        TablesHeaders ==
            {<<Head3 \o <<h1, h2>>, RowOf(Str(RoomA), "stock", 2), RowOf(NaN, "price", 2)>> :
                h1 \in HeaderCells, h2 \in HeaderCells}
            \cup {<<<<Date1, Date2, Date1, Date2>>, RowOf(Str(RoomA), "stock", 1)>>}
        TablesNames ==
            {<<Head3 \o <<Date1>>,
               <<c1, NaN, StockLabel, Str(<<"2">>)>>,
               <<c2, plan, PriceLabel, Str(<<"1", "1">>)>>,
               <<c3, NaN, StockLabel, Str(<<"3">>)>>>> :
                c1 \in NameCells, c2 \in NameCells, c3 \in NameCells, plan \in PlanCells}
    IN  /\ df \in TablesRows \cup TablesCells \cup TablesShapes \cup TablesHeaders
                   \cup TablesNames
        /\ parse = Idle
        /\ calendar = None
        /\ config = None
        /\ request = NoRequest
        /\ response = NoResponse
        /\ endpoint = "none"
        /\ activity = ""
        /\ seen = NotKeeping
        /\ NoAdmin

\* parse_sheet_to_structure is entered: the guard, source_info, the header
ParseBegin ==
    /\ parse.pc = "idle"
    /\ parse' = Begin(df)
    /\ UNCHANGED df
    /\ UNCHANGED query_vars
    /\ UNCHANGED admin_vars

\* for i in range(1, df.shape[0]): one pass
ScanNextRow ==
    /\ parse.pc = "rows"
    /\ parse.i < Len(df)
    /\ parse' = ScanRow(parse, df[parse.i + 1])
    /\ UNCHANGED df
    /\ UNCHANGED query_vars
    /\ UNCHANGED admin_vars

\* the loop is over: the dict is returned
ParseReturn ==
    /\ parse.pc = "rows"
    /\ parse.i >= Len(df)
    /\ parse' = [parse EXCEPT !.pc = "returned",
                     !.result = Some(Calendar(parse.source_info, parse.hotel_data,
                                              parse.date_cols))]
    /\ UNCHANGED df
    /\ UNCHANGED query_vars
    /\ UNCHANGED admin_vars

NextParse == ParseBegin \/ ScanNextRow \/ ParseReturn

SpecParse == InitParse /\ [][NextParse]_vars

(***************************************************************************)
(* Specification of a client that sends one request after another          *)
(***************************************************************************)
\* the request bodies the client chooses from
CallRequests ==
    {Request(room, plan, partner_name, WindowKey(0), WindowKey(2),
             <<TRUE, apply_partner_discount, TRUE>>, 5, <<>>) :
         room \in {"R1", "R9"}, plan \in {BAR, ZZ},
         partner_name \in {None, Some(OTA)}, apply_partner_discount \in BOOLEAN}

InitCalls ==
    LET
        Armed == [mode |-> "armed", call |-> None, between |-> 0]
    IN  /\ calendar = WalkCalendar
        /\ config \in {Config(Partner(10, <<bar>>, 10, <<>>)),
                        Config(Partner(10, <<bar>>, 10, <<BAR>>))}
        /\ request \in CallRequests
        /\ response = NoResponse
        /\ endpoint = "none"
        /\ activity = ""
        /\ seen = Armed
        /\ df = EmptyTable
        /\ parse = Idle
        /\ NoAdmin

\* the client sends another request body; it has no answer yet
Submit(r) ==
    /\ r # request
    /\ request' = r
    /\ response' = NoResponse
    /\ endpoint' = "none"
    /\ UNCHANGED <<calendar, config, activity, seen>>
    /\ UNCHANGED sheet_vars
    /\ UNCHANGED admin_vars

NextCalls ==
    \/ \E r \in CallRequests : Submit(r)
    \/ SimulateMain
    \/ SimulateApi
    \/ AvailabilityMain
    \/ AvailabilityApi

SpecCalls == InitCalls /\ [][NextCalls]_vars

(***************************************************************************)
(* Hotel management and uploads of src/main.py: create_hotel and           *)
(* disable_hotel run in the thread pool, each in a session of its own; the *)
(* upload endpoints run on the event loop, one at a time                   *)
(***************************************************************************)
MaxThreads == 2
MaxCalls == 3

\* the event loop and the threads of the pool
Loop == 0
Threads == 1..MaxThreads

\* urllib.parse.unquote(hotel_id).lower().strip()
decode_hotel_id(hotel_id) ==
    LET
        \* urllib.parse.unquote, for the escapes the requests use
        unquote(s) ==
            LET Escaped(h) == IF h = <<"2", "0">> THEN " "
                              ELSE IF h = <<"2", "D">> THEN "-"
                              ELSE "?"
                RECURSIVE From(_)
                From(i) ==
                    IF i > Len(s) THEN <<>>
                    ELSE IF s[i] = "%" /\ i + 2 <= Len(s)
                         THEN <<Escaped(<<s[i + 1], s[i + 2]>>)>> \o From(i + 3)
                    ELSE <<s[i]>> \o From(i + 1)
            IN  From(1)
    IN  strip(lower(unquote(hotel_id)))

\* re.fullmatch(r"[a-z0-9-]{3,64}", hotel_id)
IdMatches(hotel_id) ==
    /\ Len(hotel_id) >= 3
    /\ Len(hotel_id) <= 64
    /\ \A i \in 1..Len(hotel_id) :
          \/ \E k \in 1..Len(LowerChars) : LowerChars[k] = hotel_id[i]
          \/ IsDigit(hotel_id[i])
          \/ hotel_id[i] = "-"

\* (payload.name or "").strip() or None
HotelName(name) ==
    IF IsNone(name) \/ strip(Val(name)) = <<>> THEN None ELSE Some(strip(Val(name)))

\* Hotel(hotel_id=..., name=...): is_active defaults to True
Hotel(hotel_id, name) == [hotel_id |-> hotel_id, name |-> name, is_active |-> TRUE]

\* select(Hotel).where(Hotel.hotel_id == hotel_id) ... .first(): the id of
\* the row, None without one
SelectHotel(table, hotel_id) ==
    IF \E i \in 1..Len(table) : table[i].hotel_id = hotel_id
    THEN Some(CHOOSE i \in 1..Len(table) :
                 /\ table[i].hotel_id = hotel_id
                 /\ \A j \in 1..(i - 1) : table[j].hotel_id # hotel_id)
    ELSE None

\* filename.lower().endswith(suffix)
EndsWith(filename, suffix) ==
    /\ Len(filename) >= Len(suffix)
    /\ SubSeq(lower(filename), Len(filename) - Len(suffix) + 1, Len(filename)) = suffix

XLSX == <<".", "x", "l", "s", "x">>
XLS == <<".", "x", "l", "s">>
CSV == <<".", "c", "s", "v">>
JSON == <<".", "j", "s", "o", "n">>

\* the row loop of parse_sheet_to_structure, run to its end (the locals
\* after a pass are bound as a value before the next pass)
RECURSIVE ScanFrom(_, _)
ScanFrom(st, table) ==
    IF st.pc # "rows" THEN st
    ELSE IF st.i >= Len(table)
         THEN [st EXCEPT !.pc = "returned",
                         !.result = Some(Calendar(st.source_info, st.hotel_data,
                                                  st.date_cols))]
    ELSE CHOOSE out \in {ScanFrom(next, table) :
                             next \in {ScanRow(st, table[st.i + 1])}} : TRUE

\* parse_sheet_to_structure(df): the dict it returns or what it raises
parse_sheet_to_structure(table) ==
    LET
        \* what parse_sheet_to_structure returns or raises once the loop is left
        Outcome(st) ==
            IF st.pc = "returned" THEN Returns(Val(st.result)) ELSE Raises(st.error)
    IN  CHOOSE out \in {Outcome(ScanFrom(Begin(df0), df0)) : df0 \in {table}} : TRUE

\* the try block of process_excel_file down to  parsed = ...
ReadAndParse(file) ==
    LET
        \* pd.read_csv(..., header=None, sep=';'): the first line gives the number
        \* of columns, a longer line is a ParserError, a shorter one is filled with
        \* NaN; an empty field is NaN and, every column of these sheets holding a
        \* text, the other fields stay texts
        read_csv(content) ==
            IF content.format # "csv" THEN Raises("UnicodeDecodeError")
            ELSE IF content.lines = <<>> THEN Raises("EmptyDataError")
            ELSE IF \E i \in 1..Len(content.lines) :
                       Len(content.lines[i]) > Len(content.lines[1])
                 THEN Raises("ParserError")
            ELSE Returns([i \in 1..Len(content.lines) |->
                             [j \in 1..Len(content.lines[1]) |->
                                 IF j > Len(content.lines[i]) \/ content.lines[i][j] = <<>>
                                 THEN NaN ELSE Str(content.lines[i][j])]])
        \* pd.read_excel(..., header=None): the cells of the first sheet
        read_excel(content) ==
            IF content.format # "xlsx" THEN Raises("BadZipFile") ELSE Returns(content.sheet)
    IN  LET read == IF EndsWith(file.filename, XLSX) THEN read_excel(file.content)
                    ELSE read_csv(file.content)
        IN  IF read.raised # "" THEN read ELSE parse_sheet_to_structure(read.value)

\* what a handler returns or raises to its client
Reply(status, detail) == [status |-> status, detail |-> detail, plans |-> <<>>, body |-> None]

\* a worker without a call
NoCall ==
    LET
        NoFile == [filename |-> <<>>, content |-> [format |-> "none"]]
    IN  [op |-> "none", pc |-> "idle", hotel_id |-> <<>>, name |-> None,
         existing |-> None, file |-> NoFile, parsed |-> None]

\* worker w takes the next request
Free(w) ==
    /\ calls[w].pc = "idle"
    /\ sent < MaxCalls
    /\ sent' = sent + 1

Files ==
    LET
        \* the texts of the cells of the sheets
        Field(cell) == cell.s
        CsvHead == <<Field(Head3[1]), <<>>, <<>>, Field(Date1)>>
        CsvStock(room, stock) == <<room, <<>>, Field(StockLabel), stock>>
        CsvPrice(room, plan, price) == <<room, plan, Field(PriceLabel), price>>
        CsvFile(filename, lines) ==
            [filename |-> filename, content |-> [format |-> "csv", lines |-> lines]]
        \* the files the clients upload
        FileA ==
            CsvFile(<<"a">> \o CSV,
                    <<CsvHead, CsvStock(RoomA, <<"2">>), CsvPrice(<<>>, BAR, <<"1", "1">>)>>)
        FileB ==
            CsvFile(<<"B", ".", "C", "S", "V">>,
                    <<CsvHead, CsvStock(RoomB, <<"1">>), CsvPrice(<<>>, <<>>, <<"9">>)>>)
        FileNarrow == CsvFile(<<"n">> \o CSV, <<<<Field(Head3[1]), <<>>>>, <<RoomA, <<>>>>>>)
        FileBook ==
            [filename |-> <<"b">> \o XLSX,
             content |-> [format |-> "xlsx",
                          sheet |-> <<Head3 \o <<Timestamp(ToOrdinal(2024, 3, 1))>>,
                                      <<Str(RoomA), NaN, StockLabel, Num(30)>>>>]]
        FileOld == [filename |-> <<"o">> \o XLS, content |-> [format |-> "xls"]]
        FileConfig ==
            [filename |-> <<"c">> \o JSON,
             content |-> [format |-> "json", valid |-> TRUE, is_dict |-> TRUE,
                          value |-> Val(Config(Partner(10, <<bar>>, 10, <<>>)))]]
        FileList ==
            [filename |-> <<"l">> \o JSON,
             content |-> [format |-> "json", valid |-> TRUE, is_dict |-> FALSE, value |-> <<>>]]
        FileBroken ==
            [filename |-> <<"x">> \o JSON,
             content |-> [format |-> "json", valid |-> FALSE, is_dict |-> FALSE, value |-> <<>>]]
    IN  {FileA, FileB, FileNarrow, FileBook, FileOld, FileConfig, FileList, FileBroken}

RawIds ==
    LET
        \* the hotel ids the clients send, and the names
        abc == <<"a", "b", "c">>
    IN  {abc, <<"%", "2", "0", "A", "B", "C">>, <<"a", "b">>}
HotelIds == {decode_hotel_id(raw) : raw \in RawIds}
Names == {None, Some(<<" ", "I", "n", "n">>)}

InitHotels ==
    LET
        Workers == {Loop} \cup Threads
    IN  /\ hotels = <<>>
        /\ hotel_configs = [h \in HotelIds |-> None]
        /\ uploaded_files = <<>>
        /\ data_files = [h \in HotelIds |-> None]
        /\ calls = [w \in Workers |-> NoCall]
        /\ sent = 0
        /\ calendar = None
        /\ config = None
        /\ request = NoRequest
        /\ response = NoResponse
        /\ endpoint = "none"
        /\ activity = ""
        /\ seen = NotKeeping
        /\ df = EmptyTable
        /\ parse = Idle

Untouched == UNCHANGED <<calendar, config, request, seen, df, parse>>

\* the handler op returns or raises: its worker is free again
Answer(w, op, status, detail) ==
    /\ calls' = [calls EXCEPT ![w] = NoCall]
    /\ response' = Reply(status, detail)
    /\ endpoint' = op

\* the handler goes on with the next step of call
Continue(w, call) ==
    /\ calls' = [calls EXCEPT ![w] = call]
    /\ UNCHANGED <<response, endpoint>>

\* create_hotel down to the select: the id is decoded and matched, the
\* row is read; an active row is a conflict
CreateBegin(t, raw, name) ==
    LET hotel_id == decode_hotel_id(raw)
        existing == SelectHotel(hotels, hotel_id)
        call == [NoCall EXCEPT !.op = "create_hotel", !.pc = "selected",
                               !.hotel_id = hotel_id, !.name = HotelName(name),
                               !.existing = existing]
    IN  /\ Free(t)
        /\ IF ~IdMatches(hotel_id)
           THEN Answer(t, "create_hotel", 400, "identifiant invalide")
           ELSE IF ~IsNone(existing) /\ hotels[Val(existing)].is_active
           THEN Answer(t, "create_hotel", 409, "existe deja")
           ELSE Continue(t, call)
        /\ UNCHANGED <<hotels, hotel_configs, uploaded_files, data_files, activity>>
        /\ Untouched

\* faulty variant of CreateCommit: hotel_id is not unique in table Hotel
CreateCommitNotUnique(t) ==
    LET call == calls[t]
    IN  /\ call.op = "create_hotel"
        /\ call.pc = "selected"
        /\ IF ~IsNone(call.existing)
           THEN /\ hotels' = [hotels EXCEPT ![Val(call.existing)] =
                                 [@ EXCEPT !.is_active = TRUE,
                                           !.name = IF IsNone(call.name) THEN @
                                                    ELSE call.name]]
                /\ activity' = "hotel.reactivated"
                /\ Answer(t, "create_hotel", 201, "")
           ELSE /\ hotels' = Append(hotels, Hotel(call.hotel_id, call.name))
                /\ activity' = "hotel.created"
                /\ Answer(t, "create_hotel", 201, "")
        /\ UNCHANGED <<hotel_configs, uploaded_files, data_files>>
        /\ UNCHANGED sent
        /\ Untouched

\* create_hotel from the select to its end: the row read as disabled is
\* reactivated, or a row is inserted; the unique index on hotel_id refuses
\* a second row (IntegrityError, answered 500)
CreateCommit(t) ==
    LET call == calls[t]
    IN  /\ call.op = "create_hotel"
        /\ call.pc = "selected"
        /\ IF ~IsNone(call.existing)
           THEN /\ hotels' = [hotels EXCEPT ![Val(call.existing)] =
                                 [@ EXCEPT !.is_active = TRUE,
                                           !.name = IF IsNone(call.name) THEN @
                                                    ELSE call.name]]
                /\ activity' = "hotel.reactivated"
                /\ Answer(t, "create_hotel", 201, "")
           ELSE IF ~IsNone(SelectHotel(hotels, call.hotel_id))
           THEN /\ Answer(t, "create_hotel", 500, "IntegrityError")
                /\ UNCHANGED <<hotels, activity>>
           ELSE /\ hotels' = Append(hotels, Hotel(call.hotel_id, call.name))
                /\ activity' = "hotel.created"
                /\ Answer(t, "create_hotel", 201, "")
        /\ UNCHANGED <<hotel_configs, uploaded_files, data_files>>
        /\ UNCHANGED sent
        /\ Untouched

\* disable_hotel down to the tests on the row it read
DisableBegin(t, raw) ==
    LET hotel_id == decode_hotel_id(raw)
        existing == SelectHotel(hotels, hotel_id)
        call == [NoCall EXCEPT !.op = "disable_hotel", !.pc = "selected",
                               !.hotel_id = hotel_id, !.existing = existing]
    IN  /\ Free(t)
        /\ IF IsNone(existing)
           THEN Answer(t, "disable_hotel", 404, "Hotel non trouve.")
           ELSE IF ~hotels[Val(existing)].is_active
           THEN Answer(t, "disable_hotel", 200, "noop")
           ELSE Continue(t, call)
        /\ UNCHANGED <<hotels, hotel_configs, uploaded_files, data_files, activity>>
        /\ Untouched

\* disable_hotel: hotel.is_active = False, the log row, the commit
DisableCommit(t) ==
    LET call == calls[t]
    IN  /\ call.op = "disable_hotel"
        /\ call.pc = "selected"
        /\ hotels' = [hotels EXCEPT ![Val(call.existing)] = [@ EXCEPT !.is_active = FALSE]]
        /\ activity' = "hotel.disabled"
        /\ Answer(t, "disable_hotel", 200, "ok")
        /\ UNCHANGED <<hotel_configs, uploaded_files, data_files>>
        /\ UNCHANGED sent
        /\ Untouched

\* process_excel_file down to  parsed = parse_sheet_to_structure(df): the
\* tests on the file name and on the hotel, the read and the parse; what
\* these raise is logged and answered 500
ProcessExcelBegin(op, hotel_id, file) ==
    LET existing == SelectHotel(hotels, hotel_id)
        call == [NoCall EXCEPT !.op = op, !.pc = "parsed", !.hotel_id = hotel_id,
                               !.file = file, !.existing = existing]
    IN  IF ~(EndsWith(file.filename, XLSX) \/ EndsWith(file.filename, CSV))
        THEN /\ Answer(Loop, op, 400, "Format non supporte")
             /\ UNCHANGED activity
        ELSE IF IsNone(existing)
        THEN /\ Answer(Loop, op, 404, "Hotel introuvable")
             /\ UNCHANGED activity
        ELSE IF ~hotels[Val(existing)].is_active
        THEN /\ Answer(Loop, op, 423, "Hotel desactive")
             /\ UNCHANGED activity
        ELSE \E parsed \in {ReadAndParse(file)} :
                IF parsed.raised # ""
                THEN /\ Answer(Loop, op, 500, parsed.raised)
                     /\ activity' = "data.upload_failed"
                ELSE /\ Continue(Loop, [call EXCEPT !.parsed = Some(parsed.value)])
                     /\ UNCHANGED activity

\* process_json_config: the JSON is loaded and the HotelConfig row of the
\* hotel_id is updated or inserted; committed says whether the database
\* took the commit
ProcessJsonConfig(op, hotel_id, file, committed) ==
    LET
        \* json.loads(file_content.decode('utf-8')) and the isinstance test
        LoadConfig(content) ==
            IF content.format = "xlsx" THEN Raises("UnicodeDecodeError")
            ELSE IF content.format # "json" \/ ~content.valid THEN Raises("JSONDecodeError")
            ELSE IF ~content.is_dict THEN Raises("not a dict")
            ELSE Returns(content.value)
    IN  LET loaded == LoadConfig(file.content)
        IN  IF loaded.raised \in {"JSONDecodeError", "not a dict"}
            THEN /\ Answer(Loop, op, 400, loaded.raised)
                 /\ UNCHANGED <<hotel_configs, activity>>
            ELSE IF loaded.raised # ""
            THEN /\ Answer(Loop, op, 500, loaded.raised)
                 /\ activity' = "config.upload_failed"
                 /\ UNCHANGED hotel_configs
            ELSE IF ~committed
            THEN /\ Answer(Loop, op, 500, "OperationalError")
                 /\ UNCHANGED <<hotel_configs, activity>>
            ELSE /\ hotel_configs' = [hotel_configs EXCEPT ![hotel_id] = Some(loaded.value)]
                 /\ activity' = "config.uploaded"
                 /\ Answer(Loop, op, 200, "ok")

\* POST /upload/data: the file name chooses the processing
UploadData(raw, file, committed) ==
    /\ Free(Loop)
    /\ IF \/ EndsWith(file.filename, XLSX)
          \/ EndsWith(file.filename, XLS)
          \/ EndsWith(file.filename, CSV)
       THEN /\ ProcessExcelBegin("upload_data", decode_hotel_id(raw), file)
            /\ UNCHANGED hotel_configs
       ELSE IF EndsWith(file.filename, JSON)
       THEN ProcessJsonConfig("upload_data", decode_hotel_id(raw), file, committed)
       ELSE /\ Answer(Loop, "upload_data", 400, "Format de fichier non supporte")
            /\ UNCHANGED <<hotel_configs, activity>>
    /\ UNCHANGED <<hotels, uploaded_files, data_files>>
    /\ Untouched

\* POST /upload/excel
UploadExcel(raw, file) ==
    /\ Free(Loop)
    /\ ProcessExcelBegin("upload_excel", decode_hotel_id(raw), file)
    /\ UNCHANGED <<hotels, hotel_configs, uploaded_files, data_files>>
    /\ Untouched

\* POST /upload/config
UploadConfig(raw, file, committed) ==
    /\ Free(Loop)
    /\ ProcessJsonConfig("upload_config", decode_hotel_id(raw), file, committed)
    /\ UNCHANGED <<hotels, uploaded_files, data_files>>
    /\ Untouched

\* process_excel_file:  with open(out_path, 'w') ...: json.dump(parsed, f)
WriteDataFile ==
    LET call == calls[Loop]
    IN  /\ call.pc = "parsed"
        /\ data_files' = [data_files EXCEPT ![call.hotel_id] = call.parsed]
        /\ Continue(Loop, [call EXCEPT !.pc = "written"])
        /\ UNCHANGED <<hotels, hotel_configs, uploaded_files, activity>>
        /\ UNCHANGED sent
        /\ Untouched

\* process_excel_file from session.add(upload_entry) to its end: the row
\* and the log row are committed; when the flush or the commit raises, no
\* row is stored and the call is answered 500
CommitUpload(committed) ==
    LET
        \* the UploadedFile row of an upload
        UploadedFile(hotel_id, file) ==
            [hotel_id |-> hotel_id, filename |-> file.filename, data |-> file.content]
    IN  LET call == calls[Loop]
        IN  /\ call.pc = "written"
            /\ IF committed
               THEN /\ uploaded_files' =
                           Append(uploaded_files, UploadedFile(call.hotel_id, call.file))
                    /\ activity' = "data.uploaded"
                    /\ Answer(Loop, call.op, 200, "ok")
               ELSE /\ UNCHANGED uploaded_files
                    /\ activity' \in {activity, "data.upload_failed"}
                    /\ Answer(Loop, call.op, 500, "OperationalError")
            /\ UNCHANGED <<hotels, hotel_configs, data_files>>
            /\ UNCHANGED sent
            /\ Untouched

NextHotels ==
    \/ \E t \in Threads, raw \in RawIds, name \in Names : CreateBegin(t, raw, name)
    \/ \E t \in Threads : CreateCommit(t)
    \/ \E t \in Threads, raw \in RawIds : DisableBegin(t, raw)
    \/ \E t \in Threads : DisableCommit(t)
    \/ \E raw \in RawIds, file \in Files, committed \in BOOLEAN :
          UploadData(raw, file, committed)
    \/ \E raw \in RawIds, file \in Files : UploadExcel(raw, file)
    \/ \E raw \in RawIds, file \in Files, committed \in BOOLEAN :
          UploadConfig(raw, file, committed)
    \/ WriteDataFile
    \/ \E committed \in BOOLEAN : CommitUpload(committed)

SpecHotels == InitHotels /\ [][NextHotels]_vars

(***************************************************************************)
(* Properties                                                              *)
(***************************************************************************)
IsSimulate == endpoint \in {"main.simulate", "api.simulate"}
IsAvailability == endpoint \in {"main.get_availability", "api.get_availability"}

\* the caller passed check_hotel_permission (only the api handlers call it)
Allowed == endpoint \in {"api.simulate", "api.get_availability"} => request.permitted

DatesParse == DateParses(request.start) /\ DateParses(request.end)
Stored == ~IsNone(calendar) /\ ~IsNone(config)
RoomExists == ~IsNone(calendar) /\ request.room \in DOMAIN Val(calendar).rooms
TheRoom == Val(calendar).rooms[request.room]
ThePartner == PartnerInfo(Val(config), request.partner_name)
Answered == response.status = 200
Nights == Val(response.body).results
Info == Val(response.body)
Totals == Val(response.body).summary

\* the request passes every check that precedes plan resolution
ReachesResolution ==
    /\ IsSimulate /\ Allowed /\ DatesParse
    /\ strptime(request.start) < strptime(request.end)
    /\ Stored /\ RoomExists

\* what the resolver of the handler returns for the request
Resolved == ResolvePlan(TheRoom, request.plan, ThePartner, request.partner_name)

\* C1: a simulate request with parseable dates, start < end, an existing
\* room and a plan the resolver resolves is answered with exactly
\* (end - start) per-night records, the i-th one dated start + (i - 1) days,
\* whether or not the plan holds a price for that date.
C1_NightPerDate ==
    (ReachesResolution /\ Truthy(Resolved.plan_data)) =>
        /\ Answered
        /\ Len(Nights) = strptime(request.end) - strptime(request.start)
        /\ Info.nights = Len(Nights)
        /\ \A i \in 1..Len(Nights) :
              /\ DateParses(Nights[i].date)
              /\ strptime(Nights[i].date) = strptime(request.start) + (i - 1)

\* a three-night answer crossing the end of February that holds a priced
\* night, a night stored as null and a night absent from the plan
C1_Witness ==
    /\ IsSimulate /\ Answered
    /\ Len(Nights) = 3
    /\ Nights[3].date[2] # Nights[1].date[2]
    /\ ~IsNone(Nights[1].gross_price)
    /\ \E i \in 1..3 : IsNone(Nights[i].gross_price)
                         /\ Nights[i].date \in DOMAIN Val(Resolved.plan_data)
    /\ \E i \in 1..3 : IsNone(Nights[i].gross_price)
                         /\ Nights[i].date \notin DOMAIN Val(Resolved.plan_data)

RECURSIVE SumNetOfPriced(_)
SumNetOfPriced(rs) ==
    IF rs = <<>> THEN 0
    ELSE (IF IsNone(Head(rs).gross_price) THEN 0 ELSE Val(Head(rs).net_price))
         + SumNetOfPriced(Tail(rs))

\* C2: in every simulation answer total_net is subtotal_brut - total_discount
\* - total_commission with total_discount the sum of the partner and promo
\* discount totals, and it equals the sum of net_price over the nights whose
\* gross price is not null.
C2_TotalNetReconciles ==
    (IsSimulate /\ Answered) =>
        /\ Totals.total_discount = Totals.total_partner_discount + Totals.total_promo_discount
        /\ Totals.total_net = Totals.subtotal_brut - Totals.total_discount - Totals.total_commission
        /\ Totals.total_net = SumNetOfPriced(Nights)

\* an answer with a null night and a priced night on which a partner
\* discount, a promo discount and a commission were all taken
C2_Witness ==
    /\ IsSimulate /\ Answered
    /\ \E i \in 1..Len(Nights) : IsNone(Nights[i].gross_price)
    /\ Totals.total_partner_discount > 0
    /\ Totals.total_promo_discount > 0
    /\ Totals.total_commission > 0
    /\ Totals.total_net > 0

\* a discount percentage as the handlers apply it: nothing is taken off
\* unless the percentage is positive
Taken(pct) == IF pct > 0 THEN pct ELSE 0

\* partner commission in percent when apply_commission is set, else 0
ClaimedCommissionPct ==
    IF request.apply_commission /\ ~IsNone(ThePartner)
    THEN Val(ThePartner).commission ELSE 0

\* the cascade of one priced night r under the percentages pd and promo
Cascade(r, pd, promo) ==
    /\ ~IsNone(r.price_after_partner_discount)
    /\ ~IsNone(r.price_after_promo)
    /\ ~IsNone(r.net_price)
    /\ Val(r.price_after_partner_discount) * 100 = Val(r.gross_price) * (100 - pd)
    /\ Val(r.price_after_promo) * 100 = Val(r.price_after_partner_discount) * (100 - promo)
    /\ r.commission * 100 = Val(r.price_after_promo) * ClaimedCommissionPct
    /\ Val(r.net_price) = Val(r.price_after_promo) - r.commission

\* C3 as stated: on every priced night, for all values of the rates, zero
\* and negative ones included, afterPartner = gross * (1 - partner rate),
\* afterPromo = afterPartner * (1 - promo rate), commission = afterPromo *
\* commission rate and net = afterPromo - commission.
C3_CascadeForAllRates ==
    (IsSimulate /\ Answered) =>
        \A i \in 1..Len(Nights) :
            ~IsNone(Nights[i].gross_price) =>
                Cascade(Nights[i], Info.partner_discount, request.promo_discount)

\* C3 as amended: the same cascade holds with a partner or promo percentage
\* that is negative counted as 0 (the price is left unchanged at that step);
\* zero and positive percentages, and every commission percentage, follow
\* the stated formulas.
C3_CascadeNonNegative ==
    (IsSimulate /\ Answered) =>
        \A i \in 1..Len(Nights) :
            ~IsNone(Nights[i].gross_price) =>
                Cascade(Nights[i], Taken(Info.partner_discount),
                        Taken(request.promo_discount))

\* a priced night under a positive partner discount, a negative promo
\* percentage and a positive commission
C3_Witness ==
    /\ IsSimulate /\ Answered
    /\ Info.partner_discount > 0
    /\ request.promo_discount < 0
    /\ \E i \in 1..Len(Nights) :
          /\ ~IsNone(Nights[i].gross_price)
          /\ Val(Nights[i].gross_price) > 0
          /\ Nights[i].commission > 0
          /\ Val(Nights[i].price_after_partner_discount) < Val(Nights[i].gross_price)

\* some excludePlansContaining token is in the resolved plan name
ResolvedNameExcluded ==
    /\ ~IsNone(ThePartner)
    /\ AnyIn(Val(ThePartner).excludePlansContaining, Resolved.plan_key)

\* C4: whenever a token of the partner's excludePlansContaining is a
\* case-insensitive substring of the resolved plan name, the partner
\* discount rate used is 0 and afterPartner equals gross on every night.
C4_ExclusionOnResolvedName ==
    (IsSimulate /\ Answered /\ ResolvedNameExcluded) =>
        /\ Info.partner_discount = 0
        /\ \A i \in 1..Len(Nights) :
              Nights[i].price_after_partner_discount = Nights[i].gross_price

PlanNames == {TheRoom.plans[i].name : i \in 1..Len(TheRoom.plans)}

\* index of the first plan, in the room's order, whose name holds a code
FirstCodeMatch ==
    CHOOSE i \in 1..Len(TheRoom.plans) :
        /\ AnyIn(Val(ThePartner).codes, TheRoom.plans[i].name)
        /\ \A j \in 1..(i - 1) : ~AnyIn(Val(ThePartner).codes, TheRoom.plans[j].name)

\* every night's gross price is what the price map holds for its date
GrossFrom(prices) ==
    \A i \in 1..Len(Nights) :
        Nights[i].gross_price =
            (IF Nights[i].date \in DOMAIN prices THEN prices[Nights[i].date] ELSE None)

\* C5: when the room has no plan named as requested and the request's
\* partner has a non-empty codes list of which some plan name holds a code,
\* the plan used is the first such plan in the room's order and the answer
\* reports that plan's name.
C5_FallbackFirstInPlanOrder ==
    (/\ ReachesResolution
     /\ request.plan \notin PlanNames
     /\ ~IsNone(ThePartner)
     /\ Val(ThePartner).codes # <<>>
     /\ \E i \in 1..Len(TheRoom.plans) :
           AnyIn(Val(ThePartner).codes, TheRoom.plans[i].name))
    =>  /\ Answered
        /\ Info.plan = TheRoom.plans[FirstCodeMatch].name
        /\ GrossFrom(TheRoom.plans[FirstCodeMatch].prices)

C7_InvalidRangeRejected ==
    (/\ IsSimulate \/ IsAvailability
     /\ Allowed /\ DatesParse
     /\ strptime(request.start) >= strptime(request.end))
    =>  /\ response.status = 400
        /\ response.detail = "La date de debut doit etre avant la date de fin"
        /\ IsNone(response.body)

\* a request with start = end, which an inclusive comparison would answer
\* with an empty result, rejected by a simulate handler
C7_Witness ==
    /\ IsSimulate /\ Allowed /\ DatesParse /\ Stored /\ RoomExists
    /\ request.start = request.end
    /\ response.status = 400

\* C8: a simulate or availability request whose start or end text does not
\* parse as YYYY-MM-DD is answered with the typed date-format request error
\* (status 400), not with the status 500 of an internal failure.
C8_InvalidDateFormatTyped ==
    (/\ IsSimulate \/ IsAvailability
     /\ Allowed /\ ~DatesParse)
    =>  /\ response.status = 400
        /\ response.detail = "Format de date invalide"
        /\ IsNone(response.body)

\* no plan can be found through the partner's codes
NoFallback ==
    \/ IsNone(request.partner_name)
    \/ IsNone(ThePartner)
    \/ Val(ThePartner).codes = <<>>
    \/ \A i \in 1..Len(TheRoom.plans) :
          ~AnyIn(Val(ThePartner).codes, TheRoom.plans[i].name)

\* C9: when the requested name is not a key of the room's plans and the
\* partner-code fallback finds nothing, simulate fails with the 404
\* plan-not-found error listing the first 10 (or fewer) plan names of the
\* room in insertion order, and carries no result.
C9_PlanNotFoundListsTen ==
    (ReachesResolution /\ request.plan \notin PlanNames /\ NoFallback) =>
        /\ response.status = 404
        /\ response.detail = "Plan tarifaire introuvable"
        /\ IsNone(response.body)
        /\ Len(response.plans) =
             (IF Len(TheRoom.plans) < 10 THEN Len(TheRoom.plans) ELSE 10)
        /\ \A i \in 1..Len(response.plans) :
              response.plans[i] = TheRoom.plans[i].name

\* a plan-not-found error for a room that holds more than ten plans
C9_Witness ==
    /\ IsSimulate /\ RoomExists
    /\ response.detail = "Plan tarifaire introuvable"
    /\ Len(TheRoom.plans) > 10
    /\ Len(response.plans) = 10
    /\ ~IsNone(ThePartner)

\* C10: a simulate request whose room is not a key of the calendar's rooms
\* fails with the 404 room-not-found error and carries no result, whatever
\* plan name and partner it names.
C10_RoomNotFound ==
    (/\ IsSimulate /\ Allowed /\ DatesParse
     /\ strptime(request.start) < strptime(request.end)
     /\ Stored /\ ~RoomExists)
    =>  /\ response.status = 404
        /\ response.detail = "Chambre introuvable"
        /\ IsNone(response.body)

\* a room-not-found error for a request that names a known partner and a
\* plan that other rooms of the calendar hold
C10_Witness ==
    /\ IsSimulate /\ Stored /\ ~RoomExists
    /\ response.detail = "Chambre introuvable"
    /\ ~IsNone(ThePartner)
    /\ \E r \in DOMAIN Val(calendar).rooms :
          \E i \in 1..Len(Val(calendar).rooms[r].plans) :
              Val(calendar).rooms[r].plans[i].name = request.plan

\* sum of f[1] .. f[n]
RECURSIVE SumUpTo(_, _)
SumUpTo(f, n) == IF n = 0 THEN 0 ELSE f[n] + SumUpTo(f, n - 1)

Priced(i) == ~IsNone(Nights[i].gross_price)

\* sum over the priced nights of the answer of v[i]
SumPriced(v) ==
    SumUpTo([i \in 1..Len(Nights) |-> IF Priced(i) THEN v[i] ELSE 0], Len(Nights))

\* C11: a night whose gross price is null has null afterPartner, afterPromo
\* and net and commission 0 and adds nothing to any total; a night whose
\* gross price is 0 is a priced night: its derived prices are 0, not null,
\* and every total is the sum over exactly the nights that are not null.
C11_NullNightsExcluded ==
    (IsSimulate /\ Answered) =>
        /\ \A i \in 1..Len(Nights) :
              IsNone(Nights[i].gross_price) =>
                  /\ IsNone(Nights[i].price_after_partner_discount)
                  /\ IsNone(Nights[i].price_after_promo)
                  /\ IsNone(Nights[i].net_price)
                  /\ Nights[i].commission = 0
        /\ \A i \in 1..Len(Nights) :
              Nights[i].gross_price = Some(0) =>
                  /\ Nights[i].price_after_partner_discount = Some(0)
                  /\ Nights[i].price_after_promo = Some(0)
                  /\ Nights[i].net_price = Some(0)
        /\ Totals.total_partner_discount =
             SumPriced([i \in 1..Len(Nights) |->
                 IF Priced(i)
                 THEN Val(Nights[i].gross_price) - Val(Nights[i].price_after_partner_discount)
                 ELSE 0])
        /\ Totals.total_promo_discount =
             SumPriced([i \in 1..Len(Nights) |->
                 IF Priced(i)
                 THEN Val(Nights[i].price_after_partner_discount)
                      - Val(Nights[i].price_after_promo)
                 ELSE 0])
        /\ Totals.total_commission =
             SumPriced([i \in 1..Len(Nights) |-> Nights[i].commission])
        /\ Totals.total_net =
             SumPriced([i \in 1..Len(Nights) |->
                 IF Priced(i) THEN Val(Nights[i].net_price) ELSE 0])

\* an answer under positive rates that holds a null night and a night
\* priced 0
C11_Witness ==
    /\ IsSimulate /\ Answered
    /\ Info.partner_discount > 0 /\ Info.partner_commission > 0
    /\ request.promo_discount > 0
    /\ \E i \in 1..Len(Nights) : IsNone(Nights[i].gross_price)
    /\ \E i \in 1..Len(Nights) : Nights[i].gross_price = Some(0)

\* C12: subtotal_brut is the sum of gross_price over exactly the per-night
\* records whose gross price is not null.
C12_SubtotalIsSumOfGross ==
    (IsSimulate /\ Answered) =>
        Totals.subtotal_brut =
            SumPriced([i \in 1..Len(Nights) |->
                IF Priced(i) THEN Val(Nights[i].gross_price) ELSE 0])

\* an answer with a null night and a discounted night of positive price
C12_Witness ==
    /\ IsSimulate /\ Answered
    /\ Totals.subtotal_brut > 0
    /\ Totals.total_partner_discount > 0
    /\ \E i \in 1..Len(Nights) : IsNone(Nights[i].gross_price)

\* the rooms an availability request asks for
RoomsAsked ==
    IF request.room_types # <<>>
    THEN {request.room_types[i] : i \in 1..Len(request.room_types)}
    ELSE DOMAIN Val(calendar).rooms

\* the calendar's stock of a room on a date key, 0 when the room or the
\* date is absent
StockOrZero(room, key) ==
    IF room \in DOMAIN Val(calendar).rooms
       /\ key \in DOMAIN Val(calendar).rooms[room].stock
    THEN Val(calendar).rooms[room].stock[key] ELSE 0

\* C13: the availability answer holds, for every room asked for (every room
\* of the calendar when the filter is empty) and every date from start up
\* to, not including, end, one stock value: the calendar's stock, or 0 when
\* the room/date combination is absent from the calendar.
C13_AvailabilityForEveryRoomAsked ==
    (IsAvailability /\ Answered) =>
        \A room \in RoomsAsked :
            \A d \in strptime(request.start)..(strptime(request.end) - 1) :
                /\ room \in DOMAIN Info.availability
                /\ strftime(d) \in DOMAIN Info.availability[room]
                /\ Info.availability[room][strftime(d)] = StockOrZero(room, strftime(d))

\* the kept call was made by the handler that answered the current request,
\* on the same request, calendar and configuration
SameCallAsKept ==
    /\ seen.mode = "kept"
    /\ endpoint = Val(seen.call).endpoint
    /\ request = Val(seen.call).request
    /\ calendar = Val(seen.call).calendar
    /\ config = Val(seen.call).config

SheetRow(p) == df[p + 1]

\* row p writes a room name in column 0
NamesRoom(p) ==
    /\ Len(SheetRow(p)) >= 1
    /\ ~isna(SheetRow(p)[1])
    /\ strip(StrOf(SheetRow(p)[1])) # <<>>

\* the room named last at or before row p, None when none is
RoomAt(p) ==
    IF \E k \in 1..p : NamesRoom(k)
    THEN Some(strip(StrOf(SheetRow(
             CHOOSE k \in 1..p : NamesRoom(k) /\ \A m \in (k + 1)..p : ~NamesRoom(m))[1])))
    ELSE None

\* row p is a "left for sale" row of some room
IsStockRow(p) ==
    /\ ~IsNone(RoomAt(p))
    /\ Len(SheetRow(p)) >= 3
    /\ ~isna(SheetRow(p)[3])
    /\ StrIn(LEFT_FOR_SALE, lower(strip(StrOf(SheetRow(p)[3]))))

\* a stock row was scanned before row p for the room current at row p,
\* and the room has not changed since
StockSeenFor(p) ==
    \E q \in 1..(p - 1) :
        IsStockRow(q) /\ \A k \in q..p : RoomAt(k) = RoomAt(q)

Returned == parse.pc = "returned" /\ Val(parse.result).keys # {}
Produced == Val(parse.result)
ProcessedDates == {Produced.dates_processed[k] : k \in 1..Len(Produced.dates_processed)}

\* C14: a price row is stored as a plan of the current room only if a "left
\* for sale" row has been seen for that same current room: after the room
\* has changed, price rows are passed over until the new room's own stock
\* row has been scanned.
C14_PriceNeedsOwnStockRow ==
    (parse.pc \in {"rows", "returned"} /\ parse.branch = "price")
        => StockSeenFor(parse.i - 1)

\* C15: in every calendar parse_sheet_to_structure returns, every date key
\* of every room's stock map and of every plan's price map is an element
\* of dates_processed.
C15_KeysAreProcessedDates ==
    Returned =>
        \A room \in DOMAIN Produced.rooms :
            /\ DOMAIN Produced.rooms[room].stock \subseteq ProcessedDates
            /\ \A k \in 1..Len(Produced.rooms[room].plans) :
                  DOMAIN Produced.rooms[room].plans[k].prices \subseteq ProcessedDates

\* a calendar of two dates with a room that holds a stock map and a plan
C15_Witness ==
    /\ Returned
    /\ Cardinality(ProcessedDates) = 2
    /\ \E room \in DOMAIN Produced.rooms :
          /\ DOMAIN Produced.rooms[room].stock = ProcessedDates
          /\ Produced.rooms[room].plans # <<>>
          /\ DOMAIN Produced.rooms[room].plans[1].prices = ProcessedDates

\* C16: every room of the returned calendar has a stock entry for every
\* date of dates_processed, whatever rows the sheet holds for that room.
C16_StockForEveryDate ==
    Returned =>
        \A room \in DOMAIN Produced.rooms :
            ProcessedDates \subseteq DOMAIN Produced.rooms[room].stock

\* the sheet holds a stock row of the room
HasStockRow(room) ==
    \E p \in 1..(Len(df) - 1) : IsStockRow(p) /\ RoomAt(p) = Some(room)

\* the last stock row of the room
LastStockRow(room) ==
    SheetRow(CHOOSE p \in 1..(Len(df) - 1) :
                 /\ IsStockRow(p) /\ RoomAt(p) = Some(room)
                 /\ \A q \in (p + 1)..(Len(df) - 1) :
                       ~(IsStockRow(q) /\ RoomAt(q) = Some(room)))

\* a cell that is missing or holds no digit
Unparsable(cell) ==
    isna(cell) \/ (cell.t = "str" /\ \A i \in 1..Len(cell.s) : ~IsDigit(cell.s[i]))

\* C16, amended: every room of the returned calendar for which a "left for
\* sale" row was scanned has a stock entry for exactly the dates of
\* dates_processed, 0 where the cell is missing or holds no digit; a room
\* without such a row has an empty stock map.
C16_StockForEveryDateOfStockRows ==
    Returned =>
        \A room \in DOMAIN Produced.rooms :
            IF HasStockRow(room)
            THEN /\ DOMAIN Produced.rooms[room].stock = ProcessedDates
                 /\ \A d \in ProcessedDates :
                       Unparsable(LastCell(parse.date_cols, LastStockRow(room), d))
                           => Produced.rooms[room].stock[d] = 0
            ELSE DOMAIN Produced.rooms[room].stock = {}

\* a calendar of two dates whose stock row holds a text without digits,
\* stored as 0, next to a number
C16_Witness ==
    /\ Returned
    /\ Cardinality(ProcessedDates) = 2
    /\ \E room \in DOMAIN Produced.rooms :
          /\ HasStockRow(room)
          /\ \E d \in ProcessedDates :
                /\ Unparsable(LastCell(parse.date_cols, LastStockRow(room), d))
                /\ LastCell(parse.date_cols, LastStockRow(room), d).t = "str"
                /\ Produced.rooms[room].stock[d] = 0
          /\ \E d \in ProcessedDates : Produced.rooms[room].stock[d] > 0

\* C17: every stock value stored in a calendar by the sheet normaliser is
\* an integer >= 0, whatever kind of cell it was read from.
C17_StockNeverNegative ==
    Returned =>
        \A room \in DOMAIN Produced.rooms :
            \A d \in DOMAIN Produced.rooms[room].stock :
                Produced.rooms[room].stock[d] >= 0

\* C18: safe_int never raises, and returns 0 for a missing value, for a
\* sentinel in any letter case and for a value that cannot be parsed.
C18_SafeIntNeverRaises ==
    /\ parse.error # "OverflowError"
    /\ (parse.pc \in {"rows", "returned"} /\ parse.branch = "stock") =>
           \A d \in DOMAIN parse.current_stock_data :
               Unparsable(LastCell(parse.date_cols, SheetRow(parse.i - 1), d))
                   => parse.current_stock_data[d] = 0

\* C19: parse_sheet_to_structure ends with a calendar for every table: no
\* number of columns and no cell makes the parse fail.
C19_ParseNeverFails == parse.pc # "raised"

\* the header cell of Python column j
HeaderCell(j) == df[1][j + 1]

\* the header has been read
HeaderRead == parse.pc \in {"rows", "returned", "raised"} /\ Len(df) >= 1

\* a date key that writes a real date with a year of four digits
ValidIso(key) ==
    /\ key[1] \in 1000..9999
    /\ key[2] \in 1..12
    /\ key[3] \in 1..DaysInMonth(key[1], key[2])

\* the header text is three parts between "/"
IsSlashDate(cell) == cell.t = "str" /\ Len(split(cell.s, "/")) = 3

\* the date a header text DD/MM/YY or DD/MM/YYYY writes
SlashMeaning(text) ==
    LET parts == split(text, "/")
    IN  <<IF Len(parts[3]) = 4 THEN IntOf(parts[3]) ELSE 2000 + IntOf(parts[3]),
          IntOf(parts[2]), IntOf(parts[1])>>

\* C21: every date string the date-column detector emits is a well-formed
\* ISO date (year of four digits, month 1..12, day valid for the month) that
\* denotes the header cell's date: DD/MM/YYYY gives YYYY-MM-DD and DD/MM/YY
\* gives 20YY-MM-DD.
C21_DetectedDatesAreIso ==
    HeaderRead =>
        \A k \in 1..Len(parse.date_cols) :
            /\ ValidIso(parse.date_cols[k].date)
            /\ IsSlashDate(HeaderCell(parse.date_cols[k].index)) =>
                   parse.date_cols[k].date
                       = SlashMeaning(HeaderCell(parse.date_cols[k].index).s)

\* the date a serial number of days (in tenths) denotes
SerialMeaning(key, tenths) ==
    /\ key[1] \in SheetYears
    /\ key[2] \in 1..12
    /\ key[3] \in 1..DaysInMonth(key[1], key[2])
    /\ ToOrdinal(key[1], key[2], key[3]) = ToOrdinal(1899, 12, 30) + (tenths \div 10)

\* the serial number falls in the years 2000 to 2099, whose text starts "20"
SerialInThe2000s(tenths) ==
    /\ ToOrdinal(1899, 12, 30) + (tenths \div 10) >= ToOrdinal(2000, 1, 1)
    /\ ToOrdinal(1899, 12, 30) + (tenths \div 10) <= ToOrdinal(2099, 12, 31)

\* C22: a numeric header cell n in a column of index >= 3 becomes the date
\* n whole days after 1899-12-30 (1 gives 1899-12-31, 45000 gives
\* 2023-03-15) and its column is kept exactly when that date's text starts
\* with "20"; columns 0, 1 and 2 are never date columns; the kept columns
\* stand in dates_processed in column order.
C22_SerialHeaderDates ==
    /\ SerialDate(Num(10)) = Some(<<1899, 12, 31>>)
    /\ SerialDate(Num(450000)) = Some(<<2023, 3, 15>>)
    /\ HeaderRead =>
          /\ \A k \in 1..Len(parse.date_cols) : parse.date_cols[k].index >= 3
          /\ \A k \in 1..(Len(parse.date_cols) - 1) :
                parse.date_cols[k].index < parse.date_cols[k + 1].index
          /\ \A j \in 3..(Len(df[1]) - 1) :
                HeaderCell(j).t = "num" =>
                    /\ (\E k \in 1..Len(parse.date_cols) : parse.date_cols[k].index = j)
                           <=> SerialInThe2000s(HeaderCell(j).n)
                    /\ \A k \in 1..Len(parse.date_cols) :
                          parse.date_cols[k].index = j =>
                              SerialMeaning(parse.date_cols[k].date, HeaderCell(j).n)
    /\ Returned =>
          Produced.dates_processed
              = [k \in 1..Len(parse.date_cols) |-> parse.date_cols[k].date]

\* a returned calendar whose header holds a serial number and then a text,
\* both kept, in column order
C22_Witness ==
    /\ Returned
    /\ Len(df[1]) = 5
    /\ HeaderCell(3).t = "num" /\ HeaderCell(4).t = "str"
    /\ Produced.dates_processed = <<<<2023, 3, 15>>, <<2024, 3, 15>>>>

\* the loop has just passed over row p and goes on
Passed(p) == parse.pc = "rows" /\ parse'.pc = "rows" /\ parse.i = p /\ parse'.i = p + 1

\* what the pass over row p may change when its room is RoomAt(p)
StoredUnderRoomAt(p) ==
    IF IsNone(RoomAt(p))
    THEN /\ parse'.hotel_data = parse.hotel_data
         /\ parse'.branch \notin {"stock", "price"}
    ELSE LET room == Val(RoomAt(p))
             before == parse.hotel_data.rooms
             after == parse'.hotel_data.rooms
         IN  /\ \A r \in DOMAIN after \ {room} :
                   r \in DOMAIN before /\ after[r] = before[r]
             /\ parse'.branch \in {"stock", "price"} => room \in DOMAIN after
             /\ IsStockRow(p) =>
                   /\ parse'.branch = "stock"
                   /\ after[room].stock = parse'.current_stock_data
             /\ parse'.branch = "price" => after[room].plans # <<>>

\* C23: every accepted stock or price row is stored under the room named
\* last in column 0 at or above it (the name holds across rows whose column
\* 0 is blank), and rows above the first room name add no room, stock or
\* plan.
C23_RoomNameIsSticky ==
    [][\A p \in 1..(Len(df) - 1) : Passed(p) => StoredUnderRoomAt(p)]_vars

\* a stock row above the first room name was passed over, and a later stock
\* row with a blank column 0 is stored under the room named between them
C23_Witness ==
    /\ parse.pc = "rows" /\ parse.i = 4 /\ parse.branch = "stock"
    /\ IsNone(RoomAt(1))
    /\ ~isna(SheetRow(1)[3])
    /\ RoomAt(2) = Some(RoomA)
    /\ ~NamesRoom(3)
    /\ DOMAIN parse.hotel_data.rooms = {RoomA}
    /\ DOMAIN parse.hotel_data.rooms[RoomA].stock # {}

\* the plan name a price row's column 1 stands for
PlanNameOf(cell) ==
    IF isna(cell) \/ strip(StrOf(cell)) = <<>> THEN UNNAMED_PLAN
    ELSE strip(StrOf(cell))

\* C24: an accepted price row is stored under the trimmed text of column
\* 1, and under "UNNAMED_PLAN" when column 1 is missing, empty or
\* whitespace only; no plan is stored under the empty name.
C24_PlanNameOrUnnamed ==
    parse.pc \in {"rows", "returned"} =>
        /\ \A room \in DOMAIN parse.hotel_data.rooms :
              \A k \in 1..Len(parse.hotel_data.rooms[room].plans) :
                  parse.hotel_data.rooms[room].plans[k].name # <<>>
        /\ parse.branch = "price" =>
              \E k \in 1..Len(parse.hotel_data.rooms[Val(parse.current_room)].plans) :
                  parse.hotel_data.rooms[Val(parse.current_room)].plans[k].name
                      = PlanNameOf(SheetRow(parse.i - 1)[2])

\* what the other simulate handler returns for the same stored data and
\* request
OtherSimulate ==
    IF endpoint = "main.simulate" THEN api_simulate(calendar, config, request)
    ELSE simulate(calendar, config, request)

\* C25: the simulate handlers of src/main.py and of src/api/simulations.py
\* return the same outcome for the same calendar, configuration and
\* request: the same error, or the same reported plan name, per-night
\* records and summary.
C25_SimulateHandlersAgree ==
    (IsSimulate /\ request.permitted) =>
        /\ response.status = OtherSimulate.status
        /\ response.detail = OtherSimulate.detail
        /\ response.plans = OtherSimulate.plans
        /\ Answered =>
              /\ Info.plan = Val(OtherSimulate.body).plan
              /\ Nights = Val(OtherSimulate.body).results
              /\ Totals = Val(OtherSimulate.body).summary

\* the percentages of the request and of its partner lie in 0..100
PctsInRange ==
    /\ request.promo_discount \in 0..100
    /\ ~IsNone(ThePartner) =>
          /\ Val(ThePartner).commission \in 0..100
          /\ Val(ThePartner).percentage \in 0..100

\* C26: with commission, partner discount and promo percentages in 0..100,
\* every night of gross price >= 0 has
\* 0 <= net <= afterPromo <= afterPartner <= gross and
\* 0 <= commission <= afterPromo, and 0 <= total_net <= subtotal_brut.
C26_PricesOrdered ==
    (IsSimulate /\ Answered /\ PctsInRange) =>
        /\ \A i \in 1..Len(Nights) :
              (Priced(i) /\ Val(Nights[i].gross_price) >= 0) =>
                  /\ 0 <= Val(Nights[i].net_price)
                  /\ Val(Nights[i].net_price) <= Val(Nights[i].price_after_promo)
                  /\ Val(Nights[i].price_after_promo)
                        <= Val(Nights[i].price_after_partner_discount)
                  /\ Val(Nights[i].price_after_partner_discount)
                        <= Val(Nights[i].gross_price)
                  /\ 0 <= Nights[i].commission
                  /\ Nights[i].commission <= Val(Nights[i].price_after_promo)
        /\ 0 <= Totals.total_net
        /\ Totals.total_net <= Totals.subtotal_brut

\* an answer where every step of the cascade takes something off the price
C26_Witness ==
    /\ IsSimulate /\ Answered /\ PctsInRange
    /\ \E i \in 1..Len(Nights) :
          /\ Priced(i)
          /\ 0 < Val(Nights[i].net_price)
          /\ Val(Nights[i].net_price) < Val(Nights[i].price_after_promo)
          /\ Val(Nights[i].price_after_promo)
                < Val(Nights[i].price_after_partner_discount)
          /\ Val(Nights[i].price_after_partner_discount) < Val(Nights[i].gross_price)
    /\ Totals.total_net < Totals.subtotal_brut

\* the request names a partner that the configuration does not hold
UnknownPartner ==
    /\ Stored
    /\ ~IsNone(request.partner_name)
    /\ Val(request.partner_name) \notin DOMAIN Val(config).partners

\* what the handler that answered returns when no partner is given
WithoutPartner ==
    IF endpoint = "main.simulate"
    THEN simulate(calendar, config, [request EXCEPT !.partner_name = None])
    ELSE api_simulate(calendar, config, [request EXCEPT !.partner_name = None])

\* C27: a simulate request that names a partner absent from the
\* configuration is computed as if no partner were given: commission 0,
\* partner discount 0, no fallback on partner codes (a missing plan is
\* PlanNotFound), and the unknown name is no error of its own.
C27_UnknownPartnerIsNoPartner ==
    (IsSimulate /\ UnknownPartner) =>
        /\ response = WithoutPartner
        /\ Answered =>
              /\ Info.partner_commission = 0
              /\ Info.partner_discount = 0
              /\ \A i \in 1..Len(Nights) :
                    /\ Nights[i].commission = 0
                    /\ Nights[i].price_after_partner_discount = Nights[i].gross_price
        /\ (ReachesResolution /\ ~Truthy(PlanGet(TheRoom.plans, request.plan))) =>
              /\ response.status = 404
              /\ response.detail = "Plan tarifaire introuvable"

\* the plan asked for is missing and a code of a known partner would have
\* matched another plan: the unknown partner's request is PlanNotFound
C27_Witness ==
    /\ IsSimulate /\ UnknownPartner /\ ReachesResolution
    /\ Val(request.partner_name) # <<>>
    /\ ~Truthy(PlanGet(TheRoom.plans, request.plan))
    /\ \E n \in DOMAIN Val(config).partners :
          ~IsNone(FirstByCode(TheRoom.plans, Val(config).partners[n].codes))
    /\ response.status = 404

(***************************************************************************)
(* Properties of the uploads and of hotel management                      *)
(***************************************************************************)
\* the newest UploadedFile row of hotel_id, None without one
LatestUpload(hotel_id) ==
    LET ids == {i \in 1..Len(uploaded_files) : uploaded_files[i].hotel_id = hotel_id}
    IN  IF ids = {} THEN None
        ELSE Some(uploaded_files[CHOOSE i \in ids : \A j \in ids : j <= i])

\* the parse of the content of the newest UploadedFile row of hotel_id
ParseOfLatest(hotel_id) ==
    LET row == LatestUpload(hotel_id)
    IN  IF IsNone(row) THEN None
        ELSE Some(ReadAndParse([filename |-> Val(row).filename,
                                content |-> Val(row).data]).value)

\* C28: after any upload attempt through process_excel_file, succeeded or
\* failed, the calendar file stored for a hotel is the parse of the content
\* of the hotel's newest committed UploadedFile row (no file without a row).
C28_CalendarIsLatestUpload ==
    calls[Loop].pc = "idle" =>
        \A h \in HotelIds : data_files[h] = ParseOfLatest(h)

\* hotel_id has no row in table or its row has is_active false
ClosedIn(table, hotel_id) ==
    \/ IsNone(SelectHotel(table, hotel_id))
    \/ ~table[Val(SelectHotel(table, hotel_id))].is_active

Closed(hotel_id) == ClosedIn(hotels, hotel_id)

\* C29: while a hotel does not exist or is disabled, no step of an upload
\* endpoint changes its stored calendar or its stored partner configuration.
C29_ClosedHotelKeepsItsFiles ==
    [][\A h \in HotelIds :
          Closed(h) => /\ data_files'[h] = data_files[h]
                       /\ hotel_configs'[h] = hotel_configs[h]]_vars

\* no two Hotel rows have the same hotel_id
OneRowPerHotelId ==
    \A i \in 1..Len(hotels) : \A j \in 1..Len(hotels) :
        hotels[i].hotel_id = hotels[j].hotel_id => i = j

\* every Hotel row is still there, under its id and its hotel_id
RowsKept ==
    /\ Len(hotels') >= Len(hotels)
    /\ \A i \in 1..Len(hotels) : hotels'[i].hotel_id = hotels[i].hotel_id

\* the rows differ at most in that is_active went from true to false
OnlyDisabled ==
    /\ Len(hotels') = Len(hotels)
    /\ \A i \in 1..Len(hotels) :
          \/ hotels'[i] = hotels[i]
          \/ /\ hotels[i].is_active
             /\ hotels'[i] = [hotels[i] EXCEPT !.is_active = FALSE]

=============================================================================
